---- MODULE Spec2Model ----
(***************************************************************************)
(* Model of the version-control synchronization engine of                  *)
(* src/app/src-tauri/src/lib.rs: the embedded (libgit2) backend git_native *)
(* and the process backend git_cli, one workspace, one remote "origin".    *)
(*                                                                         *)
(* Strings are sequences of one-character strings, so that the URL         *)
(* functions are computed character by character as the code does.         *)
(* An Option<T> is a sequence of length 0 (None) or 1 (Some(x)).           *)
(*                                                                         *)
(* A network-bound operation of the embedded backend is two steps: up to   *)
(* its network call (.._begin) and from the result of that call on         *)
(* (.._end, taken by net_ok, net_error or credentials); libgit2 invokes    *)
(* the credential closure in between. An operation of the process backend  *)
(* is one step: Command::output() returns when git has finished.           *)
(*                                                                         *)
(* SpecUrl explores the embedded backend over every URL form with a small  *)
(* history; Spec explores both backends over every history with two URLs.  *)
(* SpecLocal explores init, set_remote, sync, diff and checkout_file of    *)
(* both backends over every tree of two files, with a staging or a commit  *)
(* that can fail. SpecFacade follows every command from its dispatch to    *)
(* its return to the caller, with a blocking worker that can panic.        *)
(* SpecFn applies normalize_url and clean_url to every short string.       *)
(* SpecLog explores the embedded backend with tokens shorter and longer    *)
(* than the logged preview, SpecHost both backends with every kind of      *)
(* input, SpecRemote set_remote and get_remote, and SpecPair two           *)
(* workspaces whose calls interleave at every step. SpecStatus applies     *)
(* diff to every status libgit2 can report for a path, and SpecHead        *)
(* explores the embedded backend with a HEAD that is unborn or detached.   *)
(***************************************************************************)
EXTENDS Naturals, Sequences, FiniteSets, TLC

\* ------------------------------------------------------------------ bounds
\* commits that can exist in the local and upstream object stores together
MaxCommits == 2
\* credential requests the transport makes within one network call
MaxCredRequests == 3
\* commits explored by the URL-focused specification
UrlCommits == 1
\* credential requests per call explored by the history-focused specification
GraphCredRequests == 1
\* commits explored by the specification of the local operations
LocalCommits == 1
\* commits explored by the specification of the command facade
FacadeCommits == 1
\* characters after the scheme in the strings the URL functions are applied to
FnMaxLen == 4
\* applications of the URL functions in a row
FnDepth == 2
\* commits explored in each of two workspaces used at the same time
PairCommits == 1
\* credential requests within one network call, with two calls in flight
PairCredRequests == 2
\* commits explored with a HEAD that is unborn or detached
HeadCommits == 1

\* ----------------------------------------------------------------- strings
\* the bytes of a token that the diagnostics of git_clone and git_pull print
PreviewLen == 8
\* a character whose UTF-8 encoding has two bytes
WIDE == "U+00E9"

HTTPS == <<"h", "t", "t", "p", "s", ":", "/", "/">>
GIT_AT == <<"g", "i", "t", "@">>

\* str::starts_with
StartsWith(s, p) == Len(s) >= Len(p) /\ SubSeq(s, 1, Len(p)) = p

\* the remainder str::strip_prefix returns when the prefix matches
StripPrefix(s, p) == SubSeq(s, Len(p) + 1, Len(s))

\* str::find(char): the position of the first occurrence, 0 for None
Find(s, c) ==
    IF \E i \in 1..Len(s) : s[i] = c
    THEN CHOOSE i \in 1..Len(s) : s[i] = c /\ \A j \in 1..(i - 1) : s[j] # c
    ELSE 0

\* str::contains(&str)
Contains(s, t) == \E i \in 0..(Len(s) - Len(t)) : SubSeq(s, i + 1, i + Len(t)) = t

\* the line feed that ends a line of output, and the space
LF == "\\n"
SP == " "

\* str::trim: without leading and trailing whitespace
trim(s) ==
    LET inner == {i \in 1..Len(s) : s[i] \notin {SP, LF}}
        first == CHOOSE i \in inner : \A j \in inner : i <= j
        last == CHOOSE i \in inner : \A j \in inner : j <= i
    IN  IF inner = {} THEN <<>> ELSE SubSeq(s, first, last)

\* ------------------------------------------------------------ URL functions
\* git_native::clean_url: drop everything up to the first '@' after https://
clean_url(url) ==
    IF StartsWith(url, HTTPS)
    THEN LET rest == StripPrefix(url, HTTPS)
             at_pos == Find(rest, "@")
             host_path == IF at_pos # 0 THEN SubSeq(rest, at_pos + 1, Len(rest)) ELSE rest
         IN  HTTPS \o host_path
    ELSE url

\* git_native::inject_token: an alias of clean_url, the token is not embedded
inject_token(url, token) == clean_url(url)

\* git_native::normalize_url: git@host:path -> https://host/path
normalize_url(url) ==
    IF StartsWith(url, GIT_AT) /\ Find(StripPrefix(url, GIT_AT), ":") # 0
    THEN LET rest == StripPrefix(url, GIT_AT)
             colon_pos == Find(rest, ":")
             host == SubSeq(rest, 1, colon_pos - 1)
             path == SubSeq(rest, colon_pos + 1, Len(rest))
         IN  HTTPS \o host \o <<"/">> \o path
    ELSE url

\* ------------------------------------------------------------------ inputs
\* the bearer token a caller passes, and another word that is not a token
TOKEN == <<"t", "k">>
USER == <<"u">>

\* the credential segment of a URL: none, user@ or user:pass@
CredSegs ==
    {<<>>} \cup {w \o <<"@">> : w \in {TOKEN, USER}}
           \cup {w1 \o <<":">> \o w2 \o <<"@">> : w1, w2 \in {TOKEN, USER}}

\* host and path: host/path, host:path (the SSH shorthand) and a path with '@'
HostPaths == {<<"h", "/", "r">>, <<"h", ":", "r">>, <<"h", "/", "@", "r">>}

\* the URLs a caller passes to set_remote and clone: HTTPS, SSH shorthand
\* with the user git, and no scheme (another SSH user, a path)
Urls == {p \o c \o hp : p \in {HTTPS, GIT_AT, <<>>}, c \in CredSegs, hp \in HostPaths}

\* Option<String> token arguments
TokenOpts == {<<>>, <<TOKEN>>}

Branches == {"main", "dev"}

\* the two builds: git_native behind the mas feature and on iOS, git_cli elsewhere
Backends == {"native", "cli"}

\* the files of a workspace and what a file holds
Paths == {"a.txt", "b.txt"}
ABSENT == "absent"
Blobs == {ABSENT, "v1", "v2"}

\* a tree gives every path its blob; the empty tree has no file
EMPTY == [p \in Paths |-> ABSENT]

\* contents of the working tree: the empty tree and an edited one
Contents == {EMPTY, [EMPTY EXCEPT !["a.txt"] = "v1"]}

\* every tree over Paths, and the files checkout_file is called with
FileTrees == [Paths -> Blobs]

\* Option<String> branch arguments of clone
BranchOpts == {<<>>} \cup {<<b>> : b \in Branches}

\* the value of HEAD when it names a commit and no branch
DETACHED == "detached"

\* git2::CredentialType bits the transport can ask for
CredTypes == {"USER_PASS_PLAINTEXT", "DEFAULT"}

\* the URLs the history-focused specification explores
GraphCloneUrl == HTTPS \o <<"h", "/", "r">>
GraphUrls == {GraphCloneUrl, GIT_AT \o <<"h", ":", "r">>}

\* ------------------------------------------------------------------- state
VARIABLES
    backend,        \* the backend the build routes to: "native" or "cli"
    ws,             \* the workspace path: "nodir", "plain" (no .git) or "repo"
    origin,         \* the remote "origin" of .git/config: <<>> or <<url>>
    heads,          \* refs/heads/<b>: a commit, 0 when the branch does not exist
    tracking,       \* refs/remotes/origin/<b>: a commit or 0
    HEAD,           \* the branch HEAD is attached to, DETACHED when it is on no branch
    worktree,       \* the files of the working tree
    index,          \* the staged tree (.git/index)
    branch_config,  \* the branches whose configuration names their upstream
    upstream,       \* the remote repository's refs/heads/<b>: a commit or 0
    parents,        \* object store: parents[c] is the set of parents of commit c
    tree,           \* object store: tree[c] is the content commit c records
    pc,             \* "idle", "net" while a fetch/push/clone is on the wire, or
                    \* "done" when the operation has returned its result
    cur,            \* the current (or last) operation and its local variables
    tried_userpass, \* the flag captured by the credential closure of the last call
    handed,         \* times this call handed the token to the transport
    answered,       \* credentials the callbacks returned to the transport in this call
    fetch_result,   \* what the network call of the last operation returned
    result,         \* what the last operation returned
    pre,            \* the repository as it was when the operation was called, and the
                    \* flag the closure of the call before was dropped with
    trace,          \* the pull phases the last pull went through
    stderr,         \* the URLs and token texts the call wrote to its diagnostics
    fetches,        \* network calls the last operation issued
    other           \* a second workspace with its remote and the call running
                    \* against it on another worker, <<>> when there is none

vars == <<backend, ws, origin, heads, tracking, HEAD, worktree, index, branch_config, upstream, parents, tree,
          pc, cur, tried_userpass, handed, answered, fetch_result, result, pre, trace,
          stderr, fetches, other>>

repoVars == <<ws, origin, heads, tracking, HEAD, worktree, index, branch_config>>
storeVars == <<upstream, parents, tree>>
callVars == <<pc, cur, tried_userpass, handed, answered, fetch_result, result, pre, trace,
              stderr, fetches>>

NoRefs == [b \in Branches |-> 0]
Ok(v) == [ok |-> TRUE, val |-> v]
Err(v) == [ok |-> FALSE, val |-> v]
Pending == [ok |-> FALSE, val |-> "pending"]

\* Remote::url() of find_remote("origin"), unwrap_or_default
OriginUrl(o) == IF o # <<>> THEN o[1] ELSE <<>>

\* c with every commit reachable from it through parents
RECURSIVE Ancestors(_)
Ancestors(c) == IF c = 0 THEN {} ELSE {c} \cup UNION {Ancestors(p) : p \in parents[c]}

\* the tree a checkout of commit c writes to the working tree
TreeOf(c) == IF c = 0 THEN EMPTY ELSE tree[c]

\* a checkout without force: the working tree keeps what it held
checkout_head_safe(c) == worktree

\* a checkout that writes the files of c over unmodified files only
checkout_head_keep_modified(c) ==
    [p \in Paths |-> IF worktree[p] = index[p] THEN TreeOf(c)[p] ELSE worktree[p]]

\* CheckoutBuilder::force(): the working tree checkout_head leaves for commit
\* c: the files of c, without the tracked files c lacks; force does not
\* remove untracked files
checkout_head_force(c) ==
    [p \in Paths |-> IF TreeOf(c)[p] # ABSENT THEN TreeOf(c)[p]
                     ELSE IF index[p] # ABSENT THEN ABSENT
                     ELSE worktree[p]]

\* an analysis that takes every commit HEAD lacks for a fast-forward
merge_analysis_no_divergence(ours, theirs) ==
    IF theirs \in Ancestors(ours) THEN "up_to_date" ELSE "fast_forward"

\* an analysis that never looks at the history
merge_analysis_always_fast_forward(ours, theirs) == "fast_forward"

\* Repository::merge_analysis of HEAD (ours) against the fetched commit
merge_analysis(ours, theirs) ==
    IF theirs \in Ancestors(ours) THEN "up_to_date"
    ELSE IF ours \in Ancestors(theirs) THEN "fast_forward"
    ELSE "normal"

\* the transport reaches a server only through an https:// URL
Reachable(url) == StartsWith(url, HTTPS) /\ Len(url) > Len(HTTPS)

\* an upgrade whose remote("origin", ..) does not take place after the
\* remote_delete
ensure_https_remote_deleted(o) ==
    LET orig == OriginUrl(o)
        normed == normalize_url(orig)
    IN  IF normed # orig /\ normed # <<>> THEN <<>> ELSE o

\* git_native::ensure_https_remote: the origin it leaves
ensure_https_remote(o) ==
    LET orig == OriginUrl(o)
        normed == normalize_url(orig)
    IN  IF normed # orig /\ normed # <<>> THEN <<normed>> ELSE o

\* remote_delete inside ensure_https_remote also drops refs/remotes/origin/*
ensure_https_tracking(o, t) == IF ensure_https_remote(o) # o THEN NoRefs ELSE t

\* and the branch configuration that names origin
ensure_https_config(o, c) == IF ensure_https_remote(o) # o THEN {} ELSE c

\* Repository::remote_set_url: libgit2 refuses an empty URL
remote_set_url(o, url) == IF url # <<>> THEN <<url>> ELSE o

\* the commands whose body is handed to tokio::task::spawn_blocking
BlockingOps == {"sync", "checkout_branch", "clone", "pull"}

\* the thread a command body runs on
Thread(op) == IF op \in BlockingOps THEN "blocking worker" ELSE "dispatcher"

\* an operation's arguments and local variables, and the thread it runs on
Call(op, token, branch, pinned, origin_url, url, clean) ==
    [op |-> op, token |-> token, branch |-> branch, pinned |-> pinned,
     origin_url |-> origin_url, url |-> url, clean_url |-> clean, thread |-> Thread(op)]

\* str::len: the bytes of the UTF-8 encoding, two for the character WIDE
ByteLen(s) == Len(s) + Cardinality({i \in 1..Len(s) : s[i] = WIDE})

\* the characters of s that end at byte n or before it
CharsWithin(s, n) == CHOOSE k \in 0..Len(s) :
    /\ ByteLen(SubSeq(s, 1, k)) <= n
    /\ k < Len(s) => ByteLen(SubSeq(s, 1, k + 1)) > n

\* str::is_char_boundary
is_char_boundary(s, n) == ByteLen(SubSeq(s, 1, CharsWithin(s, n))) = n

\* &tok[..8] panics when byte 8 of the token is inside a character
preview_panics(token) ==
    /\ token # <<>>
    /\ ByteLen(token[1]) >= PreviewLen
    /\ ~is_char_boundary(token[1], PreviewLen)

\* the text after token_prefix= in the diagnostics of clone and pull: the
\* first PreviewLen bytes of a token that has as many, else the token
token_prefix(token) ==
    IF token = <<>> THEN <<>>
    ELSE IF ByteLen(token[1]) >= PreviewLen
         THEN SubSeq(token[1], 1, CharsWithin(token[1], PreviewLen))
         ELSE token[1]

\* a call whose closure finds the guard as the call before left it
Entered_guard_kept(call, ph, n, texts) ==
    /\ cur' = call
    /\ pre' = [ws |-> ws, heads |-> heads, HEAD |-> HEAD, worktree |-> worktree, origin |-> origin,
                tried_userpass |-> tried_userpass]
    /\ UNCHANGED tried_userpass
    /\ handed' = 0
    /\ answered' = 0
    /\ fetch_result' = "none"
    /\ trace' = ph
    /\ stderr' = texts \ {<<>>}
    /\ UNCHANGED other
    /\ fetches' = n

\* the snapshot and the per-call state every operation starts with, and the
\* URLs and token texts it has written to its diagnostics by then
Entered(call, ph, n, texts) ==
    /\ cur' = call
    /\ pre' = [ws |-> ws, heads |-> heads, HEAD |-> HEAD, worktree |-> worktree, origin |-> origin,
                tried_userpass |-> tried_userpass]
    /\ tried_userpass' = FALSE
    /\ handed' = 0
    /\ answered' = 0
    /\ fetch_result' = "none"
    /\ trace' = ph
    /\ stderr' = texts \ {<<>>}
    /\ UNCHANGED other
    /\ fetches' = n

\* the same for an operation that prints no URL and no token
Enter(call, ph, n) == Entered(call, ph, n, {})

Return(r) == pc' = "done" /\ result' = r

\* the thread running the body unwinds: the body returns nothing
Panic == pc' = "panicked" /\ result' = Pending

\* the locals of a call are dropped when it returns
Dropped(c) == [c EXCEPT !.origin_url = <<>>, !.url = <<>>, !.clean_url = <<>>]
OnTheWire == pc' = "net" /\ result' = Pending

\* the call state between two operations
NoCall == Call("none", <<>>, "main", FALSE, <<>>, <<>>, <<>>)
NoSnapshot == [ws |-> "nodir", heads |-> NoRefs, HEAD |-> "main", worktree |-> EMPTY, origin |-> <<>>,
               tried_userpass |-> FALSE]

InitAlone ==
    /\ backend \in Backends
    /\ ws \in {"nodir", "plain"}
    /\ branch_config = {}
    /\ origin = <<>>
    /\ heads = NoRefs
    /\ tracking = NoRefs
    /\ HEAD = "main"
    /\ worktree = EMPTY
    /\ index = EMPTY
    /\ upstream = NoRefs
    /\ parents = <<>>
    /\ tree = <<>>
    /\ pc = "idle"
    /\ cur = NoCall
    /\ tried_userpass = FALSE
    /\ handed = 0
    /\ answered = 0
    /\ fetch_result = "none"
    /\ result = Ok("none")
    /\ pre = NoSnapshot
    /\ trace = <<>>
    /\ stderr = {}
    /\ fetches = 0

\* one workspace and one call at a time
Init == InitAlone /\ other = <<>>

\* ----------------------------------------------------- embedded backend
\* an init without the .git test: it initializes whatever it finds
git_init_unconditional ==
    /\ pc = "idle"
    /\ backend = "native"
    /\ Enter(Call("init", <<>>, HEAD, FALSE, <<>>, <<>>, <<>>), <<>>, 0)
    /\ Return(Ok("initialized"))
    /\ ws' = "repo"
    /\ HEAD' = "main"
    /\ UNCHANGED <<origin, heads, tracking, worktree, index, branch_config>>
    /\ UNCHANGED <<backend, storeVars>>

\* git_native::git_init
git_init ==
    /\ pc = "idle"
    /\ backend = "native"
    /\ Enter(Call("init", <<>>, HEAD, FALSE, <<>>, <<>>, <<>>), <<>>, 0)
    /\ IF ws = "repo"
       THEN Return(Ok("already_initialized")) /\ UNCHANGED repoVars
       ELSE /\ Return(Ok("initialized"))
            /\ ws' = "repo"
            /\ HEAD' = "main"
            /\ UNCHANGED <<origin, heads, tracking, worktree, index, branch_config>>
    /\ UNCHANGED <<backend, storeVars>>

\* a set_remote that adds the URL next to the one already configured
git_set_remote_add(url) ==
    /\ pc = "idle"
    /\ backend = "native"
    /\ Enter(Call("set_remote", <<>>, HEAD, FALSE, <<>>, url, <<>>), <<>>, 0)
    /\ IF ws # "repo"
       THEN Return(Err("could not find repository")) /\ UNCHANGED repoVars
       ELSE /\ Return(Ok("set"))
            /\ origin' = Append(origin, url)
            /\ UNCHANGED <<ws, heads, tracking, HEAD, worktree, index, branch_config>>
    /\ UNCHANGED <<backend, storeVars>>

\* git_native::git_set_remote: delete, then re-add
git_set_remote(url) ==
    /\ pc = "idle"
    /\ backend = "native"
    /\ Enter(Call("set_remote", <<>>, HEAD, FALSE, <<>>, url, <<>>), <<>>, 0)
    /\ IF ws # "repo"
       THEN Return(Err("could not find repository")) /\ UNCHANGED repoVars
       ELSE /\ IF url = <<>>
               THEN \* repo.remote refuses an empty URL, origin is already deleted
                    Return(Err("cannot set empty URL")) /\ origin' = <<>>
               ELSE Return(Ok("set")) /\ origin' = <<url>>
            /\ tracking' = IF origin # <<>> THEN NoRefs ELSE tracking
            /\ branch_config' = IF origin # <<>> THEN {} ELSE branch_config
            /\ UNCHANGED <<ws, heads, HEAD, worktree, index>>
    /\ UNCHANGED <<backend, storeVars>>

\* git_native::git_get_remote: the URL of origin as the configuration holds it
git_get_remote ==
    /\ pc = "idle"
    /\ backend = "native"
    /\ Enter(Call("get_remote", <<>>, HEAD, FALSE, <<>>, <<>>, <<>>), <<>>, 0)
    /\ IF ws # "repo"
       THEN Return(Err("could not find repository"))
       ELSE IF origin = <<>>
       THEN Return(Err("no remote"))
       ELSE Return(Ok(origin[1]))
    /\ UNCHANGED <<repoVars, backend, storeVars>>

\* a clone without the .git test: it clears the destination and clones
git_clone_begin_unchecked(url, token, branch) ==
    /\ pc = "idle"
    /\ backend = "native"
    /\ LET normalized == normalize_url(url)
           auth_url == IF token # <<>> THEN inject_token(normalized, token[1]) ELSE normalized
       IN  /\ Entered(Call("clone", token, IF branch # <<>> THEN branch[1] ELSE "main",
                           branch # <<>>, url, auth_url, normalized), <<>>, 1,
                      {url, token_prefix(token), normalized})
           /\ OnTheWire
           /\ ws' = "nodir"
           /\ worktree' = EMPTY
           /\ index' = EMPTY
           /\ UNCHANGED <<origin, heads, tracking, HEAD, branch_config>>
    /\ UNCHANGED <<backend, storeVars>>

\* git_native::git_clone up to the network call
git_clone_begin(url, token, branch) ==
    /\ pc = "idle"
    /\ backend = "native"
    /\ LET normalized == normalize_url(url)
           auth_url == IF token # <<>> THEN inject_token(normalized, token[1]) ELSE normalized
       IN  IF preview_panics(token)
           THEN /\ Entered(Call("clone", token, HEAD, branch # <<>>, <<>>, <<>>, <<>>), <<>>, 0,
                           {url})
                /\ Panic
                /\ UNCHANGED repoVars
           ELSE IF ws = "repo"
           THEN /\ Entered(Call("clone", token, HEAD, branch # <<>>, <<>>, <<>>, <<>>), <<>>, 0,
                           {url, token_prefix(token)})
                /\ Return(Ok("already_cloned"))
                /\ UNCHANGED repoVars
           ELSE \* remove_dir_all of a stale directory, then the clone starts
                /\ Entered(Call("clone", token, IF branch # <<>> THEN branch[1] ELSE "main",
                                branch # <<>>, url, auth_url, normalized), <<>>, 1,
                           {url, token_prefix(token), normalized})
                /\ OnTheWire
                /\ ws' = "nodir"
                /\ worktree' = EMPTY
                /\ index' = EMPTY
                /\ UNCHANGED <<origin, heads, tracking, HEAD, branch_config>>
    /\ UNCHANGED <<backend, storeVars>>

\* git_native::git_clone from the result of builder.clone on
git_clone_end(outcome) ==
    /\ UNCHANGED tried_userpass
    /\ fetch_result' = outcome
    /\ cur' = Dropped(cur)
    /\ UNCHANGED <<handed, answered, pre, stderr, other, trace, fetches, backend, storeVars>>
    /\ IF outcome = "ok" /\ (~cur.pinned \/ upstream[cur.branch] # 0)
       THEN /\ Return(Ok("cloned"))
            /\ ws' = "repo"
            /\ origin' = <<cur.url>>
            /\ tracking' = upstream
            /\ heads' = [NoRefs EXCEPT ![cur.branch] = upstream[cur.branch]]
            /\ HEAD' = cur.branch
            /\ worktree' = checkout_head_force(upstream[cur.branch])
            /\ index' = TreeOf(upstream[cur.branch])
            /\ branch_config' = IF upstream[cur.branch] # 0 THEN {cur.branch} ELSE {}
       ELSE /\ Return(Err(IF outcome = "ok" THEN "reference not found" ELSE outcome))
            /\ UNCHANGED repoVars

\* a pull that takes every HEAD that is on a branch for a born one
repo_head_born == IF HEAD = DETACHED THEN "detached" ELSE "branch"

\* repo.head() and head.is_branch() as git_pull tests them: HEAD is unborn
\* (its branch has no commit), detached, or on a branch
repo_head ==
    IF HEAD = DETACHED THEN "detached"
    ELSE IF heads[HEAD] = 0 THEN "unborn"
    ELSE "branch"

\* git_native::git_pull up to the fetch
git_pull_begin(token) ==
    /\ pc = "idle"
    /\ backend = "native"
    /\ UNCHANGED <<backend, storeVars>>
    /\ IF preview_panics(token)
       THEN /\ Entered(Call("pull", token, HEAD, FALSE, <<>>, <<>>, <<>>), <<"Start">>, 0, {})
            /\ Panic
            /\ UNCHANGED repoVars
       ELSE IF ws # "repo"
       THEN /\ Entered(Call("pull", token, HEAD, FALSE, <<>>, <<>>, <<>>), <<"Start", "Error">>, 0,
                       {token_prefix(token)})
            /\ Return(Err("Repositorio nao encontrado"))
            /\ UNCHANGED repoVars
       ELSE LET ensured == ensure_https_remote(origin)
                origin_url == OriginUrl(ensured)
                clean == normalize_url(origin_url)
                auth_url == IF token # <<>> THEN inject_token(clean, token[1]) ELSE clean
                written == remote_set_url(ensured, auth_url)
            IN  /\ tracking' = ensure_https_tracking(origin, tracking)
                /\ branch_config' = ensure_https_config(origin, branch_config)
                /\ UNCHANGED <<ws, heads, HEAD, worktree, index>>
                /\ IF repo_head = "unborn"
                   THEN \* no HEAD (empty/unborn): nothing to pull
                        /\ Entered(Call("pull", token, HEAD, FALSE, <<>>, <<>>, <<>>),
                                   <<"Start", "UpToDate">>, 0, {token_prefix(token)})
                        /\ Return(Ok("up_to_date"))
                        /\ origin' = ensured
                   ELSE IF repo_head = "detached"
                   THEN /\ Entered(Call("pull", token, HEAD, FALSE, <<>>, <<>>, <<>>),
                                   <<"Start", "Error">>, 0, {token_prefix(token)})
                        /\ Return(Err("HEAD is detached"))
                        /\ origin' = ensured
                   ELSE IF written = <<>>
                   THEN \* find_remote("origin") fails
                        /\ Entered(Call("pull", token, HEAD, FALSE, <<>>, <<>>, <<>>),
                                   <<"Start", "Error">>, 0,
                                   {token_prefix(token), origin_url, clean})
                        /\ Return(Err("remote 'origin' does not exist"))
                        /\ origin' = written
                   ELSE /\ Entered(Call("pull", token, HEAD, FALSE, origin_url, auth_url, clean),
                                   <<"Start">>, 1,
                                   {token_prefix(token), origin_url, clean})
                        /\ OnTheWire
                        /\ origin' = written

\* git_native::git_pull: the fetch returned, the clean URL is written back
pull_restore(outcome) ==
    /\ UNCHANGED tried_userpass
    /\ fetch_result' = outcome
    /\ cur' = Dropped(cur)
    /\ UNCHANGED <<handed, answered, pre, stderr, other, fetches, backend, storeVars, ws, branch_config>>
    \* always restore the clean URL
    /\ origin' = remote_set_url(origin, cur.clean_url)

\* a pull that swallows the fetch error as sync swallows the push error
pull_fetch_swallowed(outcome) ==
    /\ Return(Ok("up_to_date"))
    /\ trace' = trace \o <<"Error">>
    /\ UNCHANGED <<heads, tracking, HEAD, worktree, index>>

\* git_native::git_pull: fetch_result.map_err(..)? returns the fetch error
pull_fetch_failed(outcome) ==
    /\ Return(Err(outcome))
    /\ trace' = trace \o <<"Error">>
    /\ UNCHANGED <<heads, tracking, HEAD, worktree, index>>

\* git_native::git_pull after the fetch: merge analysis, fast-forward only
pull_merge(outcome) ==
    LET b == cur.branch
        fetched == IF outcome = "ok" /\ upstream[b] # 0
                   THEN [tracking EXCEPT ![b] = upstream[b]] ELSE tracking
        remote_oid == fetched[b]
        analysis == merge_analysis(heads[HEAD], remote_oid)
    IN  /\ tracking' = fetched
        /\ IF remote_oid = 0
           THEN /\ Return(Err("reference not found"))
                /\ trace' = trace \o <<"Fetched", "Error">>
                /\ UNCHANGED <<heads, HEAD, worktree, index>>
           ELSE IF analysis = "up_to_date"
           THEN /\ Return(Ok("up_to_date"))
                /\ trace' = trace \o <<"Fetched", "UpToDate">>
                /\ UNCHANGED <<heads, HEAD, worktree, index>>
           ELSE IF analysis = "fast_forward"
           THEN /\ Return(Ok("pulled"))
                /\ trace' = trace \o <<"Fetched", "FastForwardable", "Updated">>
                /\ heads' = [heads EXCEPT ![b] = remote_oid]
                /\ HEAD' = b
                /\ worktree' = checkout_head_force(remote_oid)
                /\ index' = TreeOf(remote_oid)
           ELSE /\ Return(Err("Cannot fast-forward"))
                /\ trace' = trace \o <<"Fetched", "Diverged", "Error">>
                /\ UNCHANGED <<heads, HEAD, worktree, index>>

\* a pull whose fetch is best-effort, as the fetch of checkout_branch is
git_pull_end_best_effort(outcome) ==
    /\ pull_restore(outcome)
    /\ pull_merge(outcome)

\* git_native::git_pull from the result of remote.fetch on
git_pull_end(outcome) ==
    /\ pull_restore(outcome)
    /\ IF outcome # "ok" THEN pull_fetch_failed(outcome) ELSE pull_merge(outcome)

\* how the local half of sync ends: staging and commit
LocalOutcomes == {"ok", "stage fails", "commit fails"}

\* git_native::git_sync up to the push; cap bounds the object store
git_sync_begin(token, cap, local) ==
    /\ pc = "idle"
    /\ backend = "native"
    /\ (ws = "repo" /\ local = "ok") => Len(parents) < cap
    /\ IF ws # "repo"
       THEN /\ Enter(Call("sync", token, HEAD, FALSE, <<>>, <<>>, <<>>), <<>>, 0)
            /\ Return(Err("could not find repository"))
            /\ UNCHANGED <<repoVars, backend, storeVars>>
       ELSE IF local # "ok"
       THEN \* index.add_all(..)?, index.write()?, repo.commit(..)? return the error
            /\ Enter(Call("sync", token, HEAD, FALSE, <<>>, <<>>, <<>>), <<>>, 0)
            /\ Return(Err(local))
            /\ index' = IF local = "commit fails" THEN worktree ELSE index
            /\ origin' = ensure_https_remote(origin)
            /\ tracking' = ensure_https_tracking(origin, tracking)
            /\ branch_config' = ensure_https_config(origin, branch_config)
            /\ UNCHANGED <<backend, ws, heads, HEAD, worktree, storeVars>>
       ELSE LET ensured == ensure_https_remote(origin)
                parent == heads[HEAD]
                commit == Len(parents) + 1
                origin_url == OriginUrl(ensured)
                normed == normalize_url(origin_url)
                push_url == IF token # <<>> THEN inject_token(normed, token[1]) ELSE normed
            IN  \* stage everything and commit on top of HEAD
                /\ index' = worktree
                /\ parents' = Append(parents, IF parent = 0 THEN {} ELSE {parent})
                /\ tree' = Append(tree, worktree)
                /\ heads' = [heads EXCEPT ![HEAD] = commit]
                /\ tracking' = ensure_https_tracking(origin, tracking)
                /\ branch_config' = ensure_https_config(origin, branch_config)
                /\ UNCHANGED <<backend, ws, HEAD, worktree, upstream>>
                /\ IF ensured = <<>>
                   THEN \* no origin: nothing to push
                        /\ Enter(Call("sync", token, HEAD, FALSE, <<>>, <<>>, <<>>), <<>>, 0)
                        /\ Return(Ok("synced"))
                        /\ origin' = ensured
                   ELSE /\ Enter(Call("sync", token, HEAD, FALSE, origin_url, push_url,
                                      normalize_url(origin_url)), <<>>, 1)
                        /\ OnTheWire
                        /\ origin' = remote_set_url(ensured, push_url)

\* git_native::git_sync from the result of the best-effort push on
git_sync_end(outcome) ==
    LET b == cur.branch
        accepted == outcome = "ok" /\ (upstream[b] = 0 \/ upstream[b] \in Ancestors(heads[b]))
    IN  /\ UNCHANGED tried_userpass
        /\ fetch_result' = outcome
        /\ cur' = Dropped(cur)
        /\ UNCHANGED <<backend, handed, answered, pre, stderr, other, trace, fetches, parents, tree>>
        /\ UNCHANGED <<ws, heads, HEAD, worktree, index, branch_config>>
        /\ upstream' = IF accepted THEN [upstream EXCEPT ![b] = heads[b]] ELSE upstream
        /\ tracking' = IF accepted THEN [tracking EXCEPT ![b] = heads[b]] ELSE tracking
        \* restore clean URL after push
        /\ origin' = remote_set_url(origin, cur.clean_url)
        /\ Return(Ok("synced"))

\* git_native::git_checkout_branch up to the fetch
git_checkout_branch_begin(branch, token) ==
    /\ pc = "idle"
    /\ backend = "native"
    /\ UNCHANGED <<backend, storeVars>>
    /\ IF ws # "repo"
       THEN /\ Enter(Call("checkout_branch", token, branch, FALSE, <<>>, <<>>, <<>>), <<>>, 0)
            /\ Return(Err("could not find repository"))
            /\ UNCHANGED repoVars
       ELSE LET ensured == ensure_https_remote(origin)
                origin_url == OriginUrl(ensured)
                clean == normalize_url(origin_url)
                auth_url == IF token # <<>> THEN inject_token(clean, token[1]) ELSE clean
                written == remote_set_url(ensured, auth_url)
            IN  /\ tracking' = ensure_https_tracking(origin, tracking)
                /\ branch_config' = ensure_https_config(origin, branch_config)
                /\ origin' = written
                /\ UNCHANGED <<ws, heads, HEAD, worktree, index>>
                /\ IF written = <<>>
                   THEN \* find_remote("origin") fails
                        /\ Enter(Call("checkout_branch", token, branch, FALSE, <<>>, <<>>, <<>>),
                                   <<>>, 0)
                        /\ Return(Err("remote 'origin' does not exist"))
                   ELSE /\ Enter(Call("checkout_branch", token, branch, FALSE, origin_url,
                                      auth_url, clean), <<>>, 1)
                        /\ OnTheWire

\* a checkout_branch that returns the error of its fetch as pull does
git_checkout_branch_end_fetch_checked(outcome) ==
    /\ UNCHANGED tried_userpass
    /\ fetch_result' = outcome
    /\ cur' = Dropped(cur)
    /\ UNCHANGED <<handed, answered, pre, stderr, other, trace, fetches, backend, storeVars, ws, branch_config>>
    /\ origin' = remote_set_url(origin, cur.clean_url)
    /\ IF outcome # "ok"
       THEN /\ Return(Err(outcome))
            /\ UNCHANGED <<heads, tracking, HEAD, worktree, index>>
       ELSE LET b == cur.branch
                remote_oid == IF upstream[b] # 0 THEN upstream[b] ELSE tracking[b]
            IN  /\ tracking' = [tracking EXCEPT ![b] = remote_oid]
                /\ IF remote_oid = 0 \/ (heads[b] # 0 /\ HEAD = b)
                   THEN /\ Return(Err("reference not found"))
                        /\ UNCHANGED <<heads, HEAD, worktree, index>>
                   ELSE /\ Return(Ok("switched"))
                        /\ heads' = [heads EXCEPT ![b] = remote_oid]
                        /\ HEAD' = b
                        /\ worktree' = checkout_head_force(remote_oid)
                        /\ index' = TreeOf(remote_oid)

\* git_native::git_checkout_branch from the result of the best-effort fetch on
git_checkout_branch_end(outcome) ==
    LET b == cur.branch
        fetched == IF outcome = "ok" /\ upstream[b] # 0
                   THEN [tracking EXCEPT ![b] = upstream[b]] ELSE tracking
        remote_oid == fetched[b]
    IN  /\ UNCHANGED tried_userpass
        /\ fetch_result' = outcome
        /\ cur' = Dropped(cur)
        /\ UNCHANGED <<handed, answered, pre, stderr, other, trace, fetches, backend, storeVars, ws, branch_config>>
        /\ origin' = remote_set_url(origin, cur.clean_url)
        /\ tracking' = fetched
        /\ IF remote_oid = 0
           THEN /\ Return(Err("reference not found"))
                /\ UNCHANGED <<heads, HEAD, worktree, index>>
           ELSE IF heads[b] # 0 /\ HEAD = b
           THEN \* Repository::branch(force) refuses to move the current branch
                /\ Return(Err("cannot force update branch as it is the current HEAD"))
                /\ UNCHANGED <<heads, HEAD, worktree, index>>
           ELSE /\ Return(Ok("switched"))
                /\ heads' = [heads EXCEPT ![b] = remote_oid]
                /\ HEAD' = b
                /\ worktree' = checkout_head_force(remote_oid)
                /\ index' = TreeOf(remote_oid)

\* the rest of the operation on the wire, once its network call returned
finish(outcome) ==
    CASE cur.op = "pull" -> git_pull_end(outcome)
      [] cur.op = "sync" -> git_sync_end(outcome)
      [] cur.op = "checkout_branch" -> git_checkout_branch_end(outcome)
      [] cur.op = "clone" -> git_clone_end(outcome)

\* a closure without the tried_userpass guard: it hands the token every time
token_callbacks_unguarded(allowed, tried) ==
    IF "USER_PASS_PLAINTEXT" \in allowed
    THEN [ret |-> "userpass_plaintext", tried |-> TRUE]
    ELSE [ret |-> "default", tried |-> tried]

\* the closure of git_native::token_callbacks: what it returns for a request
\* and the tried_userpass it leaves
token_callbacks(allowed, tried) ==
    IF "USER_PASS_PLAINTEXT" \in allowed
    THEN IF tried
         THEN [ret |-> "Err", tried |-> tried]
         ELSE [ret |-> "userpass_plaintext", tried |-> TRUE]
    ELSE [ret |-> "default", tried |-> tried]

\* whether the callbacks built for the call hold a credentials callback:
\* token_callbacks(tok) with a token, a bare RemoteCallbacks::new() without
has_credentials_callback(token) == token # <<>>

\* the transport asks for credentials (the server answered 401)
credentials(allowed, cap) ==
    /\ pc = "net"
    /\ Reachable(cur.url)
    /\ answered < cap
    /\ IF ~has_credentials_callback(cur.token)
       THEN \* libgit2 gives up: nobody to ask
            finish("authentication required but no callback set")
       ELSE LET r == token_callbacks(allowed, tried_userpass)
            IN  IF r.ret = "Err"
                THEN finish("auth failed after retry")
                ELSE /\ tried_userpass' = r.tried
                     /\ handed' = IF r.ret = "userpass_plaintext" THEN handed + 1 ELSE handed
                     /\ answered' = answered + 1
                     \* [git2 cred] url=...
                     /\ stderr' = stderr \cup {cur.url}
                     /\ UNCHANGED other
                     /\ UNCHANGED <<repoVars, backend, storeVars, pc, cur, fetch_result, result, pre, trace,
                                    fetches>>

\* the network call completes
net_ok == pc = "net" /\ Reachable(cur.url) /\ finish("ok")

\* the network call fails in the transport
net_error == pc = "net" /\ finish("transport error")

\* the command dispatcher hands the result to the caller, the call is over
dispatcher_returns ==
    /\ pc = "done"
    /\ pc' = "idle"
    /\ cur' = NoCall
    /\ result' = Ok("none")
    /\ pre' = NoSnapshot
    /\ trace' = <<>>
    /\ stderr' = {}
    /\ UNCHANGED other
    /\ fetches' = 0
    /\ handed' = 0
    /\ answered' = 0
    /\ fetch_result' = "none"
    /\ UNCHANGED <<repoVars, backend, storeVars, tried_userpass>>

\* ------------------------------------------------------- process backend
\* the git executable reaches https:// URLs and the SSH shorthand user@host:path
CliReachable(url) ==
    \/ Reachable(url)
    \/ /\ Find(url, ":") > 1
       /\ Find(url, "/") = 0 \/ Find(url, ":") < Find(url, "/")

\* the per-call state of an operation that runs git to completion
Ran(call, n, outcome) ==
    /\ cur' = call
    /\ pre' = [ws |-> ws, heads |-> heads, HEAD |-> HEAD, worktree |-> worktree, origin |-> origin,
                tried_userpass |-> tried_userpass]
    /\ tried_userpass' = FALSE
    /\ handed' = 0
    /\ answered' = 0
    /\ fetch_result' = outcome
    /\ trace' = <<>>
    /\ stderr' = {}
    /\ UNCHANGED other
    /\ fetches' = n

\* git merge --ff-only and git checkout refuse to overwrite local changes:
\* whether the switch from commit from to commit to goes through
switch_allowed(from, to) ==
    TreeOf(from) = TreeOf(to) \/ (worktree = TreeOf(from) /\ index = TreeOf(from))

\* and the working tree and the index it leaves
switch_worktree(from, to) == IF TreeOf(from) = TreeOf(to) THEN worktree ELSE TreeOf(to)
switch_index(from, to) == IF TreeOf(from) = TreeOf(to) THEN index ELSE TreeOf(to)

\* git_cli::git_init: git init -b main
git_cli_init ==
    /\ pc = "idle"
    /\ backend = "cli"
    /\ Ran(Call("init", <<>>, HEAD, FALSE, <<>>, <<>>, <<>>), 0, "none")
    /\ UNCHANGED <<backend, storeVars>>
    /\ IF ws = "repo"
       THEN Return(Ok("already_initialized")) /\ UNCHANGED repoVars
       ELSE IF ws = "nodir"
       THEN \* current_dir does not exist: git cannot be spawned there
            Return(Err("No such file or directory")) /\ UNCHANGED repoVars
       ELSE /\ Return(Ok("initialized"))
            /\ ws' = "repo"
            /\ HEAD' = "main"
            /\ UNCHANGED <<origin, heads, tracking, worktree, index, branch_config>>

\* git_cli::git_set_remote: git remote add, then git remote set-url
git_cli_set_remote(url) ==
    /\ pc = "idle"
    /\ backend = "cli"
    /\ Ran(Call("set_remote", <<>>, HEAD, FALSE, <<>>, url, <<>>), 0, "none")
    /\ UNCHANGED <<backend, storeVars, ws, heads, tracking, HEAD, worktree, index, branch_config>>
    /\ IF ws # "repo"
       THEN Return(Err("not a git repository")) /\ UNCHANGED origin
       ELSE /\ Return(Ok(IF origin = <<>> THEN "added" ELSE "updated"))
            /\ origin' = <<url>>

\* git_cli::git_get_remote: git remote get-url origin, its output trimmed;
\* any failure of git is reported as "no remote"
git_cli_get_remote ==
    /\ pc = "idle"
    /\ backend = "cli"
    /\ Ran(Call("get_remote", <<>>, HEAD, FALSE, <<>>, <<>>, <<>>), 0, "none")
    /\ IF ws = "nodir"
       THEN \* the process cannot start in a missing directory
            Return(Err("No such file or directory"))
       ELSE IF ws # "repo" \/ origin = <<>>
       THEN Return(Err("no remote"))
       ELSE Return(Ok(trim(origin[1] \o <<LF>>)))
    /\ UNCHANGED <<repoVars, backend, storeVars>>

\* git_cli::git_clone: git clone [--branch b] url path
git_cli_clone(url, branch, outcome) ==
    LET b == IF branch # <<>> THEN branch[1] ELSE "main"
    IN  /\ pc = "idle"
        /\ backend = "cli"
        /\ UNCHANGED <<backend, storeVars>>
        /\ IF ws = "repo"
           THEN /\ Ran(Call("clone", <<>>, HEAD, branch # <<>>, <<>>, <<>>, <<>>), 0, "none")
                /\ Return(Ok("already_cloned"))
                /\ UNCHANGED repoVars
           ELSE IF ws = "plain" /\ worktree # EMPTY
           THEN /\ Ran(Call("clone", <<>>, b, branch # <<>>, <<>>, <<>>, <<>>), 0, "none")
                /\ Return(Err("destination path already exists and is not an empty directory"))
                /\ UNCHANGED repoVars
           ELSE /\ outcome = "ok" => CliReachable(url)
                /\ Ran(Call("clone", <<>>, b, branch # <<>>, <<>>, <<>>, <<>>), 1, outcome)
                /\ IF outcome = "ok" /\ (branch = <<>> \/ upstream[b] # 0)
                   THEN /\ Return(Ok("cloned"))
                        /\ ws' = "repo"
                        /\ origin' = <<url>>
                        /\ tracking' = upstream
                        /\ heads' = [NoRefs EXCEPT ![b] = upstream[b]]
                        /\ HEAD' = b
                        /\ worktree' = TreeOf(upstream[b])
                        /\ index' = TreeOf(upstream[b])
                        /\ branch_config' = {b}
                   ELSE /\ Return(Err(IF outcome = "ok" THEN "Remote branch not found"
                                      ELSE outcome))
                        /\ UNCHANGED repoVars

\* git_cli::git_sync: git add -A, git commit --allow-empty, git push origin HEAD
git_cli_sync(outcome, cap, local) ==
    /\ pc = "idle"
    /\ backend = "cli"
    /\ (ws = "repo" /\ local = "ok") => Len(parents) < cap
    /\ UNCHANGED backend
    /\ IF ws # "repo"
       THEN /\ Ran(Call("sync", <<>>, HEAD, FALSE, <<>>, <<>>, <<>>), 0, "none")
            /\ Return(Err("not a git repository"))
            /\ UNCHANGED <<repoVars, storeVars>>
       ELSE IF local = "stage fails"
       THEN \* run(&["add", "-A"])? returns the error
            /\ Ran(Call("sync", <<>>, HEAD, FALSE, <<>>, <<>>, <<>>), 0, "none")
            /\ Return(Err(local))
            /\ UNCHANGED <<repoVars, storeVars>>
       ELSE LET parent == heads[HEAD]
                committed == local = "ok"
                \* let _ = ..commit..: HEAD stays where it was when the commit fails
                commit == IF committed THEN Len(parents) + 1 ELSE parent
                \* git push origin HEAD finds nothing to push on an unborn HEAD
                pushing == origin # <<>> /\ commit # 0
                accepted == /\ pushing
                            /\ outcome = "ok"
                            /\ upstream[HEAD] = 0 \/ upstream[HEAD] \in Ancestors(parent)
            IN  /\ pushing /\ outcome = "ok" => CliReachable(origin[1])
                /\ Ran(Call("sync", <<>>, HEAD, FALSE, <<>>, <<>>, <<>>),
                       IF pushing THEN 1 ELSE 0,
                       IF pushing THEN outcome ELSE "none")
                /\ index' = worktree
                /\ IF committed
                   THEN /\ parents' = Append(parents, IF parent = 0 THEN {} ELSE {parent})
                        /\ tree' = Append(tree, worktree)
                        /\ heads' = [heads EXCEPT ![HEAD] = commit]
                   ELSE UNCHANGED <<parents, tree, heads>>
                \* the result of the push is dropped
                /\ upstream' = IF accepted THEN [upstream EXCEPT ![HEAD] = commit] ELSE upstream
                /\ tracking' = IF accepted THEN [tracking EXCEPT ![HEAD] = commit] ELSE tracking
                /\ Return(Ok("synced"))
                /\ UNCHANGED <<ws, origin, HEAD, worktree, branch_config>>

\* git_cli::git_pull: git pull --ff-only
git_cli_pull(outcome) ==
    /\ pc = "idle"
    /\ backend = "cli"
    /\ UNCHANGED <<backend, storeVars, ws, origin, branch_config>>
    /\ IF ws # "repo" \/ origin = <<>>
       THEN /\ Ran(Call("pull", <<>>, HEAD, FALSE, <<>>, <<>>, <<>>), 0, "none")
            /\ Return(Err(IF ws # "repo" THEN "not a git repository"
                          ELSE "no tracking information"))
            /\ UNCHANGED <<heads, tracking, HEAD, worktree, index>>
       ELSE LET fetched == [b \in Branches |->
                               IF outcome = "ok" /\ upstream[b] # 0 THEN upstream[b]
                               ELSE tracking[b]]
                ours == heads[HEAD]
                theirs == fetched[HEAD]
                analysis == merge_analysis(ours, theirs)
            IN  /\ outcome = "ok" => CliReachable(origin[1])
                /\ Ran(Call("pull", <<>>, HEAD, FALSE, <<>>, <<>>, <<>>), 1, outcome)
                /\ tracking' = fetched
                /\ UNCHANGED HEAD
                /\ IF outcome # "ok"
                   THEN Return(Err(outcome)) /\ UNCHANGED <<heads, worktree, index>>
                   ELSE IF HEAD \notin branch_config
                   THEN /\ Return(Err("no tracking information"))
                        /\ UNCHANGED <<heads, worktree, index>>
                   ELSE IF theirs = 0
                   THEN /\ Return(Err("no such ref was fetched"))
                        /\ UNCHANGED <<heads, worktree, index>>
                   ELSE IF ours # 0 /\ analysis = "up_to_date"
                   THEN \* git exits 0 with "Already up to date."
                        Return(Ok("pulled")) /\ UNCHANGED <<heads, worktree, index>>
                   ELSE IF ours # 0 /\ analysis = "normal"
                   THEN /\ Return(Err("Not possible to fast-forward, aborting."))
                        /\ UNCHANGED <<heads, worktree, index>>
                   ELSE IF ~switch_allowed(ours, theirs)
                   THEN /\ Return(Err("local changes would be overwritten by merge"))
                        /\ UNCHANGED <<heads, worktree, index>>
                   ELSE /\ Return(Ok("pulled"))
                        /\ heads' = [heads EXCEPT ![HEAD] = theirs]
                        /\ worktree' = switch_worktree(ours, theirs)
                        /\ index' = switch_index(ours, theirs)

\* git_cli::git_checkout_branch: git fetch origin b, git checkout -B b origin/b
git_cli_checkout_branch(branch, outcome) ==
    /\ pc = "idle"
    /\ backend = "cli"
    /\ UNCHANGED <<backend, storeVars, ws, origin>>
    /\ IF ws # "repo"
       THEN /\ Ran(Call("checkout_branch", <<>>, branch, FALSE, <<>>, <<>>, <<>>), 0, "none")
            /\ Return(Err("not a git repository"))
            /\ UNCHANGED <<heads, tracking, HEAD, worktree, index, branch_config>>
       ELSE LET fetched == IF origin # <<>> /\ outcome = "ok" /\ upstream[branch] # 0
                           THEN [tracking EXCEPT ![branch] = upstream[branch]]
                           ELSE tracking
                from == heads[HEAD]
                to == fetched[branch]
            IN  /\ origin # <<>> /\ outcome = "ok" => CliReachable(origin[1])
                /\ Ran(Call("checkout_branch", <<>>, branch, FALSE, <<>>, <<>>, <<>>),
                       IF origin # <<>> THEN 1 ELSE 0,
                       IF origin # <<>> THEN outcome ELSE "none")
                \* the result of the fetch is dropped
                /\ tracking' = fetched
                /\ IF to = 0
                   THEN /\ Return(Err("invalid reference"))
                        /\ UNCHANGED <<heads, HEAD, worktree, index, branch_config>>
                   ELSE IF ~switch_allowed(from, to)
                   THEN /\ Return(Err("local changes would be overwritten by checkout"))
                        /\ UNCHANGED <<heads, HEAD, worktree, index, branch_config>>
                   ELSE /\ Return(Ok("switched"))
                        /\ heads' = [heads EXCEPT ![branch] = to]
                        /\ HEAD' = branch
                        /\ worktree' = switch_worktree(from, to)
                        /\ index' = switch_index(from, to)
                        /\ branch_config' = branch_config \cup {branch}

\* ------------------------------------------------- diff and checkout_file
\* the paths in the order git and libgit2 list them
SortedPaths == <<"a.txt", "b.txt">>

\* the call state of an operation on one file
FileCall(op, file) == [file |-> file] @@ Call(op, <<>>, HEAD, FALSE, <<>>, <<>>, <<>>)

\* repo.head().ok().and_then(peel_to_commit).and_then(tree): HEAD's tree, if any
head_tree == IF heads[HEAD] = 0 THEN <<>> ELSE <<tree[heads[HEAD]]>>

\* how blob to differs from blob from: git2::Status / the letters of git status
Change(from, to) ==
    IF from = to THEN "CURRENT"
    ELSE IF from = ABSENT THEN "NEW"
    ELSE IF to = ABSENT THEN "DELETED"
    ELSE "MODIFIED"

\* the index against HEAD, the working tree against the index, for path p
INDEX_status(p) == Change(TreeOf(heads[HEAD])[p], index[p])
WT_status(p) == Change(index[p], worktree[p])

\* git2::Status of an entry: the flags of the index against HEAD
IndexFlags == {"INDEX_NEW", "INDEX_MODIFIED", "INDEX_DELETED", "INDEX_TYPECHANGE"}
\* and of the working tree against the index
WtFlags == {"WT_NEW", "WT_MODIFIED", "WT_DELETED", "WT_TYPECHANGE"}

\* the flag git_native::git_diff chooses for the status s of an entry, <<>>
\* for an entry it filters (no flag set, Status::CURRENT)
status_flag(s) ==
    IF s = {} THEN <<>>
    ELSE IF "WT_NEW" \in s \/ "INDEX_NEW" \in s THEN <<"?", "?">>
    ELSE IF "INDEX_MODIFIED" \in s \/ "WT_MODIFIED" \in s THEN <<" ", "M">>
    ELSE IF "INDEX_DELETED" \in s \/ "WT_DELETED" \in s THEN <<" ", "D">>
    ELSE <<" ", " ">>

\* the change a flag stands for
FlagChange(f) ==
    CASE f \in {"INDEX_NEW", "WT_NEW"} -> "NEW"
      [] f \in {"INDEX_MODIFIED", "WT_MODIFIED"} -> "MODIFIED"
      [] f \in {"INDEX_DELETED", "WT_DELETED"} -> "DELETED"
      [] OTHER -> "TYPECHANGE"

\* the status libgit2 computes for path p from HEAD, the index and the files
status_of(p) ==
    {f \in IndexFlags : FlagChange(f) = INDEX_status(p)} \cup
    {f \in WtFlags : FlagChange(f) = WT_status(p)}

\* the flag of the status entry of path p
native_flag(p) == status_flag(status_of(p))

\* the lines git_native::git_diff collects from the entries of repo.statuses:
\* flag and path of every entry with a status, in path order
status_entries(st) ==
    LET entry(k) == status_flag(st[SortedPaths[k]]) \o <<SortedPaths[k]>>
    IN  SelectSeq([k \in 1..Len(SortedPaths) |-> entry(k)], LAMBDA e : Len(e) = 3)

\* the lines git_native::git_diff collects from repo.statuses(None)
native_files == status_entries([p \in Paths |-> status_of(p)])

\* one letter of git status --short
Letter(change) ==
    CASE change = "CURRENT" -> " "
      [] change = "NEW" -> "A"
      [] change = "MODIFIED" -> "M"
      [] change = "DELETED" -> "D"

\* git status --short: the XY line of a path the index or HEAD knows
tracked_line(p) ==
    LET x == Letter(INDEX_status(p))
        y == IF index[p] = ABSENT THEN " " ELSE Letter(WT_status(p))
    IN  IF x = " " /\ y = " " THEN <<>> ELSE <<x, y, p>>

\* and the ?? line of a file the index does not know
untracked_line(p) == IF index[p] = ABSENT /\ worktree[p] # ABSENT THEN <<"?", "?", p>> ELSE <<>>

\* the lines git_cli::git_diff collects: tracked paths first, then untracked
cli_files ==
    LET n == Len(SortedPaths)
        line(k) == IF k <= n THEN tracked_line(SortedPaths[k]) ELSE untracked_line(SortedPaths[k - n])
    IN  SelectSeq([k \in 1..(2 * n) |-> line(k)], LAMBDA e : Len(e) = 3)

\* the patch of HEAD's tree against the working tree: a hunk for every path git
\* tracks whose blob differs; a file the index does not know counts as absent
Patch(h) ==
    LET now(p) == IF index[p] = ABSENT THEN ABSENT ELSE worktree[p]
        hunk(k) == <<SortedPaths[k], h[SortedPaths[k]], now(SortedPaths[k])>>
    IN  SelectSeq([k \in 1..Len(SortedPaths) |-> hunk(k)], LAMBDA e : e[2] # e[3])

\* git diff HEAD / diff_tree_to_workdir_with_index: empty without a HEAD commit
diff_text == IF head_tree = <<>> THEN <<>> ELSE Patch(head_tree[1])

\* the value diff returns
Changes(files, diff) == Ok([files |-> files, diff |-> diff])

\* a diff that needs HEAD to point at a commit
git_diff_head_required ==
    /\ pc = "idle"
    /\ backend = "native"
    /\ Enter(Call("diff", <<>>, HEAD, FALSE, <<>>, <<>>, <<>>), <<>>, 0)
    /\ IF ws # "repo"
       THEN Return(Err("could not find repository"))
       ELSE IF head_tree = <<>>
       THEN Return(Err("reference 'refs/heads/main' not found"))
       ELSE Return(Changes(native_files, diff_text))
    /\ UNCHANGED <<repoVars, backend, storeVars>>

\* git_native::git_diff
git_diff ==
    /\ pc = "idle"
    /\ backend = "native"
    /\ Enter(Call("diff", <<>>, HEAD, FALSE, <<>>, <<>>, <<>>), <<>>, 0)
    /\ IF ws # "repo"
       THEN Return(Err("could not find repository"))
       ELSE Return(Changes(native_files, diff_text))
    /\ UNCHANGED <<repoVars, backend, storeVars>>

\* the statuses repo.statuses(None) can report for a path: one flag of the
\* index against HEAD with one of the working tree against the index (a path
\* the index does not hold is new in the working tree or not there; renames
\* are not detected without the rename options), an ignored file (the default
\* options include ignored files), or a path with a conflict in the index
ObservableStatuses ==
    {i \cup w : i \in {{}} \cup {{f} : f \in IndexFlags},
                w \in {{}} \cup {{f} : f \in WtFlags \ {"WT_NEW"}}}
    \cup {i \cup w : i \in {{}, {"INDEX_DELETED"}}, w \in {{}, {"WT_NEW"}}}
    \cup {{"IGNORED"}, {"CONFLICTED"}}

\* git_native::git_diff on a working tree for which repo.statuses(None)
\* reports the statuses st
git_diff_statuses(st) ==
    /\ pc = "idle"
    /\ backend = "native"
    /\ Enter([statuses |-> st] @@ Call("diff", <<>>, HEAD, FALSE, <<>>, <<>>, <<>>), <<>>, 0)
    /\ IF ws # "repo"
       THEN Return(Err("could not find repository"))
       ELSE Return(Changes(status_entries(st), diff_text))
    /\ UNCHANGED <<repoVars, backend, storeVars>>

\* git_cli::git_diff: git status --short, git diff HEAD
git_cli_diff ==
    /\ pc = "idle"
    /\ backend = "cli"
    /\ Ran(Call("diff", <<>>, HEAD, FALSE, <<>>, <<>>, <<>>), 0, "none")
    /\ IF ws = "nodir"
       THEN \* the process cannot start in a missing directory
            Return(Err("No such file or directory"))
       ELSE IF ws = "plain"
       THEN \* both commands fail, their output is empty
            Return(Changes(<<>>, <<>>))
       ELSE Return(Changes(cli_files, diff_text))
    /\ UNCHANGED <<repoVars, backend, storeVars>>

\* git_native::git_checkout_file: checkout_head, forced, limited to the path
git_checkout_file(file) ==
    /\ pc = "idle"
    /\ backend = "native"
    /\ Enter(FileCall("checkout_file", file), <<>>, 0)
    /\ UNCHANGED <<backend, storeVars, ws, origin, heads, tracking, HEAD, branch_config>>
    /\ IF ws # "repo"
       THEN Return(Err("could not find repository")) /\ UNCHANGED <<worktree, index>>
       ELSE IF head_tree = <<>>
       THEN Return(Err("HEAD is unborn")) /\ UNCHANGED <<worktree, index>>
       ELSE LET h == head_tree[1][file]
                \* a forced checkout leaves a file the index does not know alone
                untracked == h = ABSENT /\ index[file] = ABSENT
            IN  /\ Return(Ok("reverted"))
                /\ worktree' = IF untracked THEN worktree ELSE [worktree EXCEPT ![file] = h]
                /\ index' = [index EXCEPT ![file] = h]

\* git_cli::git_checkout_file: git checkout -- file restores from the index
git_cli_checkout_file(file) ==
    /\ pc = "idle"
    /\ backend = "cli"
    /\ Ran(FileCall("checkout_file", file), 0, "none")
    /\ UNCHANGED <<backend, storeVars, ws, origin, heads, tracking, HEAD, index, branch_config>>
    /\ IF ws = "nodir"
       THEN Return(Err("No such file or directory")) /\ UNCHANGED worktree
       ELSE IF ws = "plain"
       THEN Return(Err("not a git repository")) /\ UNCHANGED worktree
       ELSE IF index[file] = ABSENT
       THEN Return(Err("pathspec did not match any file(s) known to git")) /\ UNCHANGED worktree
       ELSE /\ Return(Ok("reverted"))
            /\ worktree' = [worktree EXCEPT ![file] = index[file]]

\* ------------------------------------------------------- command facade
\* the closure given to spawn_blocking panics: its JoinHandle holds a JoinError
worker_panics ==
    /\ pc = "net"
    /\ cur.thread = "blocking worker"
    /\ pc' = "panicked"
    /\ UNCHANGED <<repoVars, backend, storeVars, cur, tried_userpass, handed, answered,
                   fetch_result, result, pre, stderr, other, trace, fetches>>

\* a command that answers without waiting for the worker it spawned
command_returns_unawaited ==
    /\ pc \in {"net", "done", "panicked"}
    /\ pc' = "returned"
    /\ result' = IF pc = "done" THEN result ELSE Err("task panicked")
    /\ UNCHANGED <<repoVars, backend, storeVars, cur, tried_userpass, handed, answered,
                   fetch_result, pre, stderr, other, trace, fetches>>

\* the command returns to the caller: the body's result, or for a spawned
\* body .await.map_err(|e| e.to_string())?, the JoinError as an error
command_returns ==
    /\ pc \in {"done", "panicked"}
    /\ pc' = "returned"
    /\ result' = IF pc = "done" THEN result ELSE Err("task panicked")
    /\ UNCHANGED <<repoVars, backend, storeVars, cur, tried_userpass, handed, answered,
                   fetch_result, pre, stderr, other, trace, fetches>>

\* the caller has the answer and the next command can be dispatched
caller_continues ==
    /\ pc = "returned"
    /\ pc' = "idle"
    /\ cur' = NoCall
    /\ result' = Ok("none")
    /\ pre' = NoSnapshot
    /\ trace' = <<>>
    /\ stderr' = {}
    /\ UNCHANGED other
    /\ fetches' = 0
    /\ handed' = 0
    /\ answered' = 0
    /\ fetch_result' = "none"
    /\ tried_userpass' = FALSE
    /\ UNCHANGED <<repoVars, backend, storeVars>>

\* ------------------------------------------------------------ environment
\* the user edits the tracked file
local_edit(v) ==
    /\ pc = "idle"
    /\ ws # "nodir"
    /\ v # worktree
    /\ worktree' = v
    /\ UNCHANGED <<ws, origin, heads, tracking, HEAD, index, branch_config, backend, storeVars, callVars, other>>

\* the user checks out the commit of HEAD by its id with another git client
head_detached ==
    /\ pc = "idle"
    /\ ws = "repo"
    /\ HEAD # DETACHED
    /\ heads[HEAD] # 0
    /\ HEAD' = DETACHED
    /\ UNCHANGED <<ws, origin, heads, tracking, worktree, index, branch_config, backend, storeVars,
                   callVars, other>>

\* somebody else pushes a commit to branch b of the remote repository
upstream_commit(b, v, cap) ==
    /\ pc = "idle"
    /\ Len(parents) < cap
    /\ parents' = Append(parents, IF upstream[b] = 0 THEN {} ELSE {upstream[b]})
    /\ tree' = Append(tree, v)
    /\ upstream' = [upstream EXCEPT ![b] = Len(parents) + 1]
    /\ UNCHANGED <<backend, repoVars, callVars, other>>

\* ---------------------------------------------------------- specifications
\* what the network gives a git process
Outcomes == {"ok", "transport error"}

\* the embedded backend, every URL form, a small history
InitUrl == Init /\ backend = "native"

NextUrl ==
    \/ git_init
    \/ \E u \in Urls : git_set_remote(u)
    \/ \E u \in Urls, t \in TokenOpts : git_clone_begin(u, t, <<>>)
    \/ \E t \in TokenOpts : git_pull_begin(t)
    \/ \E t \in TokenOpts : git_sync_begin(t, UrlCommits, "ok")
    \/ \E b \in Branches, t \in TokenOpts : git_checkout_branch_begin(b, t)
    \/ \E a \in SUBSET CredTypes \ {{}} : credentials(a, MaxCredRequests)
    \/ net_ok
    \/ net_error
    \/ dispatcher_returns

SpecUrl == InitUrl /\ [][NextUrl]_vars

\* both backends, every history, two URL forms
Next ==
    \/ git_init
    \/ \E u \in GraphUrls : git_set_remote(u)
    \/ \E u \in GraphUrls, t \in TokenOpts, b \in BranchOpts : git_clone_begin(u, t, b)
    \/ \E t \in TokenOpts : git_pull_begin(t)
    \/ \E t \in TokenOpts : git_sync_begin(t, MaxCommits, "ok")
    \/ \E b \in Branches, t \in TokenOpts : git_checkout_branch_begin(b, t)
    \/ \E a \in SUBSET CredTypes \ {{}} : credentials(a, GraphCredRequests)
    \/ net_ok
    \/ net_error
    \/ git_cli_init
    \/ \E u \in GraphUrls : git_cli_set_remote(u)
    \/ \E u \in GraphUrls, b \in BranchOpts, o \in Outcomes : git_cli_clone(u, b, o)
    \/ \E o \in Outcomes : git_cli_sync(o, MaxCommits, "ok")
    \/ \E o \in Outcomes : git_cli_pull(o)
    \/ \E b \in Branches, o \in Outcomes : git_cli_checkout_branch(b, o)
    \/ dispatcher_returns
    \/ \E v \in Contents : local_edit(v)
    \/ \E b \in Branches, v \in Contents : upstream_commit(b, v, MaxCommits)

Spec == Init /\ [][Next]_vars

\* both backends, the local operations on every tree over Paths, one URL
NextLocal ==
    \/ git_init
    \/ git_set_remote(GraphCloneUrl)
    \/ \E t \in TokenOpts, l \in LocalOutcomes : git_sync_begin(t, LocalCommits, l)
    \/ \E a \in SUBSET CredTypes \ {{}} : credentials(a, GraphCredRequests)
    \/ net_ok
    \/ net_error
    \/ git_diff
    \/ \E f \in Paths : git_checkout_file(f)
    \/ git_cli_init
    \/ git_cli_set_remote(GraphCloneUrl)
    \/ \E o \in Outcomes, l \in LocalOutcomes : git_cli_sync(o, LocalCommits, l)
    \/ git_cli_diff
    \/ \E f \in Paths : git_cli_checkout_file(f)
    \/ dispatcher_returns
    \/ \E v \in FileTrees : local_edit(v)

SpecLocal == Init /\ [][NextLocal]_vars

\* both backends, every command from its dispatch to its return to the caller
NextFacade ==
    \/ git_init
    \/ git_set_remote(GraphCloneUrl)
    \/ \E t \in TokenOpts, b \in BranchOpts : git_clone_begin(GraphCloneUrl, t, b)
    \/ \E t \in TokenOpts : git_pull_begin(t)
    \/ \E t \in TokenOpts : git_sync_begin(t, FacadeCommits, "ok")
    \/ \E b \in Branches, t \in TokenOpts : git_checkout_branch_begin(b, t)
    \/ \E a \in SUBSET CredTypes \ {{}} : credentials(a, GraphCredRequests)
    \/ net_ok
    \/ net_error
    \/ worker_panics
    \/ git_cli_init
    \/ git_cli_set_remote(GraphCloneUrl)
    \/ \E b \in BranchOpts, o \in Outcomes : git_cli_clone(GraphCloneUrl, b, o)
    \/ \E o \in Outcomes : git_cli_sync(o, FacadeCommits, "ok")
    \/ \E o \in Outcomes : git_cli_pull(o)
    \/ \E b \in Branches, o \in Outcomes : git_cli_checkout_branch(b, o)
    \/ command_returns
    \/ caller_continues
    \/ \E b \in Branches, v \in Contents : upstream_commit(b, v, FacadeCommits)

\* the runtime resumes a command whose worker has finished
SpecFacade == Init /\ [][NextFacade]_vars /\ WF_vars(command_returns)

\* ----------------------------------------------------- the URL functions
\* the characters that matter to the URL functions, and a letter
FnAlphabet == {"u", "@", ":", "/"}

\* every string a remote URL can be: with the https:// scheme, with the git@
\* user of the SSH shorthand, with another user, or with none of these
FnUrls ==
    {p \o t : p \in {HTTPS, GIT_AT, USER \o <<"@">>, <<>>},
              t \in UNION {[1..k -> FnAlphabet] : k \in 0..FnMaxLen}}

\* the URL of origin is any string; no function has been applied to it yet
InitFn ==
    /\ Init
    /\ backend = "native"
    /\ ws = "plain"

\* the string arrives as the URL of origin (let origin_url = ..url()..)
read_origin_url(url) ==
    /\ pc = "idle"
    /\ cur = NoCall
    /\ cur' = [NoCall EXCEPT !.origin_url = url, !.url = url]
    /\ pc' = "fn"
    /\ UNCHANGED <<repoVars, backend, storeVars, tried_userpass, handed, answered,
                   fetch_result, result, pre, stderr, other, trace, fetches>>

\* let clean_url = normalize_url(&origin_url)
apply_normalize_url(depth) ==
    /\ pc = "fn"
    /\ Len(trace) < depth
    /\ cur' = [cur EXCEPT !.url = normalize_url(cur.url)]
    /\ trace' = Append(trace, "normalize_url")
    /\ UNCHANGED <<repoVars, backend, storeVars, pc, tried_userpass, handed, answered,
                   fetch_result, result, pre, stderr, other, fetches>>

\* inject_token(&clean_url, tok), that is clean_url(url)
apply_clean_url(depth) ==
    /\ pc = "fn"
    /\ Len(trace) < depth
    /\ cur' = [cur EXCEPT !.url = clean_url(cur.url)]
    /\ trace' = Append(trace, "clean_url")
    /\ UNCHANGED <<repoVars, backend, storeVars, pc, tried_userpass, handed, answered,
                   fetch_result, result, pre, stderr, other, fetches>>

NextFn ==
    \/ \E u \in FnUrls : read_origin_url(u)
    \/ apply_normalize_url(FnDepth)
    \/ apply_clean_url(FnDepth)

SpecFn == InitFn /\ [][NextFn]_vars

\* ---------------------------------------------------------- the diagnostics
\* tokens shorter than the preview, as long as it, and longer
LogTokens == {TOKEN} \cup {[i \in 1..k |-> "k"] : k \in (PreviewLen - 1)..(PreviewLen + 1)}
LogTokenOpts == {<<>>} \cup {<<t>> : t \in LogTokens}

\* the embedded backend, tokens of every length around the preview's
NextLog ==
    \/ git_init
    \/ git_set_remote(GraphCloneUrl)
    \/ \E t \in LogTokenOpts : git_clone_begin(GraphCloneUrl, t, <<>>)
    \/ \E t \in LogTokenOpts : git_pull_begin(t)
    \/ \E t \in LogTokenOpts : git_sync_begin(t, UrlCommits, "ok")
    \/ \E b \in Branches, t \in LogTokenOpts : git_checkout_branch_begin(b, t)
    \/ \E a \in SUBSET CredTypes \ {{}} : credentials(a, GraphCredRequests)
    \/ net_ok
    \/ net_error
    \/ dispatcher_returns

SpecLog == InitUrl /\ [][NextLog]_vars

\* ---------------------------------------------------------- two workspaces
\* everything a workspace, its remote and the call running against it hold
Focused ==
    [ws |-> ws, origin |-> origin, heads |-> heads, tracking |-> tracking, HEAD |-> HEAD,
     worktree |-> worktree, index |-> index, branch_config |-> branch_config,
     upstream |-> upstream, parents |-> parents, tree |-> tree,
     pc |-> pc, cur |-> cur, tried_userpass |-> tried_userpass, handed |-> handed,
     answered |-> answered, fetch_result |-> fetch_result, result |-> result, pre |-> pre,
     trace |-> trace, stderr |-> stderr, fetches |-> fetches]

\* the worker of the other call runs: every field of a call is an argument, a
\* local or captured by its own closure, and the repository is opened by path
Resume(w) ==
    /\ ws' = w.ws /\ origin' = w.origin /\ heads' = w.heads /\ tracking' = w.tracking
    /\ HEAD' = w.HEAD /\ worktree' = w.worktree /\ index' = w.index
    /\ branch_config' = w.branch_config
    /\ upstream' = w.upstream /\ parents' = w.parents /\ tree' = w.tree
    /\ pc' = w.pc /\ cur' = w.cur /\ handed' = w.handed /\ answered' = w.answered
    /\ fetch_result' = w.fetch_result /\ result' = w.result /\ pre' = w.pre
    /\ trace' = w.trace /\ stderr' = w.stderr /\ fetches' = w.fetches

\* an engine whose credential closures share one tried_userpass flag
context_switch_shared_flag ==
    /\ other # <<>>
    /\ Resume(other)
    /\ other' = Focused
    /\ UNCHANGED <<backend, tried_userpass>>

\* the scheduler runs the worker of the other workspace
context_switch ==
    /\ other # <<>>
    /\ Resume(other)
    /\ tried_userpass' = other.tried_userpass
    /\ other' = Focused
    /\ UNCHANGED backend

\* two workspaces with a remote each, no call running
InitPair ==
    /\ InitAlone
    /\ backend = "native"
    /\ other \in {[Focused EXCEPT !.ws = w] : w \in {"nodir", "plain"}}

\* the embedded backend, two calls interleaved at every step
NextPair ==
    \/ git_init
    \/ \E t \in TokenOpts : git_clone_begin(GraphCloneUrl, t, <<>>)
    \/ \E t \in TokenOpts : git_pull_begin(t)
    \/ \E t \in TokenOpts : git_sync_begin(t, PairCommits, "ok")
    \/ \E a \in SUBSET CredTypes \ {{}} : credentials(a, PairCredRequests)
    \/ net_ok
    \/ net_error
    \/ dispatcher_returns
    \/ context_switch

SpecPair == InitPair /\ [][NextPair]_vars

\* ------------------------------------------------------- the remote URL
\* URLs given to set_remote: well-formed ones and one pasted with a space
RemoteUrls == GraphUrls \cup {GraphCloneUrl \o <<SP>>}

\* both backends, origin written and read
NextRemote ==
    \/ git_init
    \/ \E u \in RemoteUrls : git_set_remote(u)
    \/ git_get_remote
    \/ git_cli_init
    \/ \E u \in RemoteUrls : git_cli_set_remote(u)
    \/ git_cli_get_remote
    \/ dispatcher_returns
    \/ \E v \in Contents : local_edit(v)

SpecRemote == Init /\ [][NextRemote]_vars

\* ------------------------------------------------------------ every input
\* a token of PreviewLen characters, the one at position at two bytes wide
WideToken(at) == [i \in 1..PreviewLen |-> IF i = at THEN WIDE ELSE "k"]
\* no token, an ASCII token, and tokens with a wide character at either end
HostTokenOpts == {<<>>, <<TOKEN>>, <<WideToken(1)>>, <<WideToken(PreviewLen)>>}
\* well-formed URLs, the empty URL and a malformed one
HostUrls == GraphUrls \cup {<<>>, <<"@">>}

\* both backends, every command with every kind of input, from its dispatch
\* to its return to the caller
NextHost ==
    \/ git_init
    \/ \E u \in HostUrls : git_set_remote(u)
    \/ \E u \in HostUrls, t \in HostTokenOpts, b \in BranchOpts : git_clone_begin(u, t, b)
    \/ \E t \in HostTokenOpts : git_pull_begin(t)
    \/ \E t \in HostTokenOpts : git_sync_begin(t, FacadeCommits, "ok")
    \/ \E b \in Branches, t \in HostTokenOpts : git_checkout_branch_begin(b, t)
    \/ \E a \in SUBSET CredTypes \ {{}} : credentials(a, GraphCredRequests)
    \/ net_ok
    \/ net_error
    \/ git_diff
    \/ git_get_remote
    \/ \E f \in Paths : git_checkout_file(f)
    \/ git_cli_init
    \/ \E u \in HostUrls : git_cli_set_remote(u)
    \/ git_cli_get_remote
    \/ \E u \in HostUrls, b \in BranchOpts, o \in Outcomes : git_cli_clone(u, b, o)
    \/ \E o \in Outcomes : git_cli_sync(o, FacadeCommits, "ok")
    \/ \E o \in Outcomes : git_cli_pull(o)
    \/ \E b \in Branches, o \in Outcomes : git_cli_checkout_branch(b, o)
    \/ git_cli_diff
    \/ \E f \in Paths : git_cli_checkout_file(f)
    \/ command_returns
    \/ caller_continues
    \/ \E v \in Contents : local_edit(v)

SpecHost == Init /\ [][NextHost]_vars

\* ------------------------------------------------------- the status flags
\* diff of the embedded backend over every status of two paths
NextStatus ==
    \/ git_init
    \/ \E st \in [Paths -> ObservableStatuses] : git_diff_statuses(st)
    \/ dispatcher_returns

SpecStatus == InitUrl /\ [][NextStatus]_vars

\* ------------------------------------------------- HEAD without a branch
\* the embedded backend on a repository whose HEAD is unborn, on a branch or
\* detached; no operation of this specification reads the commit a detached
\* HEAD names
NextHead ==
    \/ git_init
    \/ \E u \in Urls : git_set_remote(u)
    \/ \E u \in GraphUrls, t \in TokenOpts, b \in BranchOpts : git_clone_begin(u, t, b)
    \/ \E t \in TokenOpts : git_pull_begin(t)
    \/ \E a \in SUBSET CredTypes \ {{}} : credentials(a, GraphCredRequests)
    \/ net_ok
    \/ net_error
    \/ dispatcher_returns
    \/ \E v \in Contents : local_edit(v)
    \/ \E b \in Branches, v \in Contents : upstream_commit(b, v, HeadCommits)
    \/ head_detached

SpecHead == InitUrl /\ [][NextHead]_vars

\* ------------------------------------------------ credentials in origin
\* the operations that go to the network
NetOps == {"sync", "clone", "pull", "checkout_branch"}

\* the operations that rewrite origin for the call and write it back after
RewritingOps == {"sync", "pull", "checkout_branch"}

\* the last operation was one of ops, went to the network and has returned
Returned(ops) == pc = "done" /\ cur.op \in ops /\ fetches = 1

\* the part of a URL before the path: after https://, up to the first '/'
Authority(url) ==
    LET rest == IF StartsWith(url, HTTPS) THEN StripPrefix(url, HTTPS) ELSE url
        slash == Find(rest, "/")
    IN  IF slash = 0 THEN rest ELSE SubSeq(rest, 1, slash - 1)

\* a user@ or user:pass@ segment precedes the host
HasCredentialSegment(url) == Find(Authority(url), "@") # 0

\* C1: after a network operation that was given a token, whatever origin was
\* persisted before, the persisted origin URL does not contain the token
C1_TokenNeverPersisted ==
    (Returned(NetOps) /\ cur.token # <<>>) => ~Contains(OriginUrl(origin), cur.token[1])

\* a pull given the token fetched from an https:// origin and wrote the
\* token that origin held back into it
C1_TokenLeftInOrigin ==
    /\ Returned({"pull"})
    /\ cur.token = <<TOKEN>>
    /\ fetch_result = "ok"
    /\ StartsWith(OriginUrl(origin), HTTPS)
    /\ Contains(OriginUrl(origin), TOKEN)

\* C2: when pull, checkout_branch or sync returns from its network call, on
\* success and on failure, the origin it leaves has no credential segment
C2_CleanUrlRestoredOnEveryExit ==
    [][(pc = "net" /\ pc' = "done" /\ cur.op \in RewritingOps)
        => ~HasCredentialSegment(OriginUrl(origin'))]_vars

\* a failed fetch of checkout_branch was followed by a write-back that kept
\* the credential segment
C2_CredentialsRestoredAfterFailure ==
    /\ Returned({"checkout_branch"})
    /\ fetch_result = "transport error"
    /\ StartsWith(OriginUrl(origin), HTTPS)
    /\ HasCredentialSegment(OriginUrl(origin))

\* C10: after sync, pull, checkout_branch or clone went to the network, the
\* persisted origin is an https:// URL without a user@ or user:pass@ segment
C10_OriginNormalizedAndCredentialFree ==
    (Returned(NetOps) /\ origin # <<>>) =>
        /\ StartsWith(OriginUrl(origin), HTTPS)
        /\ ~HasCredentialSegment(OriginUrl(origin))

\* a clone without a token succeeded and persisted the credential segment
\* of the URL it was given
C10_CloneKeepsCredentialSegment ==
    /\ Returned({"clone"})
    /\ result = Ok("cloned")
    /\ HasCredentialSegment(OriginUrl(origin))

\* -------------------------------------------------- credential attempts
\* the transport asked again after the token was handed: the remote rejected it
Rejected == pc = "done" /\ cur.op \in NetOps /\ fetch_result = "auth failed after retry"

\* C3: within one network call given a token the token is handed to the
\* transport at most once: the first request for a user/password is answered
\* with it, and a second one ends the call with an error
C3_TokenHandedAtMostOnce ==
    /\ handed <= 1
    /\ pc = "net" => (tried_userpass <=> handed = 1)
    /\ Rejected => handed = 1 /\ cur.token # <<>>

\* a pull handed its token once and was asked for a user/password again
C3_SecondRequestFailed ==
    /\ Rejected
    /\ cur.op = "pull"
    /\ handed = 1
    /\ result = Err("auth failed after retry")

\* C4 as stated: when the remote rejects the token, each of sync, clone, pull
\* and checkout_branch returns the authentication error
C4_RejectedTokenReturnsAuthError ==
    Rejected => result = Err("auth failed after retry")

\* C4: when the remote rejects the token, the token was handed once; clone
\* and pull return the authentication error, which is not the transport
\* error; sync swallows it with the push and returns synced; checkout_branch
\* swallows it with the fetch and goes on with what it knows of origin/branch
C4_RejectedTokenSurfacesInCloneAndPull ==
    Rejected =>
        /\ handed = 1
        /\ cur.op \in {"clone", "pull"} => result = Err("auth failed after retry")
        /\ cur.op = "sync" => result = Ok("synced")
        /\ cur.op = "checkout_branch" =>
               result \in {Ok("switched"), Err("reference not found"),
                           Err("cannot force update branch as it is the current HEAD")}
        /\ result # Err("transport error")

\* a clone whose token was rejected returned the authentication error
C4_CloneReturnsAuthError ==
    /\ Rejected
    /\ cur.op = "clone"
    /\ result = Err("auth failed after retry")
    /\ ws = "nodir"

\* the transport asked for credentials and the call had none to give
Unanswered ==
    /\ pc = "done"
    /\ cur.op \in NetOps
    /\ fetch_result = "authentication required but no callback set"

\* C5: a call without a token answers the first credential request with one
\* agent or default credential, and no call answers a second request that
\* it does not answer with the token
C5_SingleDefaultAttempt ==
    /\ answered <= handed + 1
    /\ Unanswered => answered = 1

\* a pull given a token answered two requests with the default credential
C5_DefaultAnsweredTwice ==
    /\ pc = "net"
    /\ cur.op = "pull"
    /\ cur.token = <<TOKEN>>
    /\ handed = 0
    /\ answered = 2

\* ------------------------------------------------------------------ pull
\* the last operation was a pull and it has returned
Pulled == pc = "done" /\ cur.op = "pull"

\* it was a pull of the embedded backend
NativePulled == Pulled /\ backend = "native"

\* the commit of the local branch when the pull was called, and the commit
\* of the same branch upstream
Ours == pre.heads[pre.HEAD]
Theirs == upstream[pre.HEAD]

\* each side has commits the other lacks
Diverged ==
    /\ Ours # 0
    /\ Theirs # 0
    /\ Ours \notin Ancestors(Theirs)
    /\ Theirs \notin Ancestors(Ours)

\* upstream has every local commit and more
Behind == Ours # 0 /\ Ours # Theirs /\ Ours \in Ancestors(Theirs)

\* C6: in both backends a pull of a branch that has diverged from its
\* upstream returns an error, the non-fast-forward one when the fetch
\* succeeded, and leaves the working tree, every local branch and HEAD as
\* they were before the call
C6_DivergedPullChangesNothing ==
    (Pulled /\ Diverged) =>
        /\ ~result.ok
        /\ (backend = "native" /\ fetch_result = "ok") => result = Err("Cannot fast-forward")
        /\ (backend = "cli" /\ fetch_result = "ok" /\ pre.HEAD \in branch_config) =>
               result = Err("Not possible to fast-forward, aborting.")
        /\ heads = pre.heads
        /\ HEAD = pre.HEAD
        /\ worktree = pre.worktree

\* a pull of the embedded backend fetched a diverged upstream over a working
\* tree with local edits
C6_DivergedPullRefused ==
    /\ NativePulled
    /\ Diverged
    /\ fetch_result = "ok"
    /\ result = Err("Cannot fast-forward")
    /\ worktree # TreeOf(Ours)
    /\ tracking[pre.HEAD] = Theirs

\* C7: a pull of the embedded backend on a branch strictly behind its
\* upstream, when its fetch succeeds, returns pulled, moves that branch and no other to the upstream commit,
\* keeps HEAD on it and leaves the working tree equal to that commit's tree,
\* but for the untracked files that were there before and the commit lacks
C7_BehindPullFastForwards ==
    (NativePulled /\ Behind /\ fetch_result = "ok") =>
        /\ result = Ok("pulled")
        /\ heads = [pre.heads EXCEPT ![pre.HEAD] = Theirs]
        /\ HEAD = pre.HEAD
        /\ \A p \in Paths :
              \/ worktree[p] = tree[Theirs][p]
              \/ /\ tree[Theirs][p] = ABSENT
                 /\ TreeOf(Ours)[p] = ABSENT
                 /\ worktree[p] = pre.worktree[p]

\* a pull fast-forwarded a branch whose working tree had local edits that
\* differ from the upstream tree
C7_FastForwarded ==
    /\ NativePulled
    /\ Behind
    /\ result = Ok("pulled")
    /\ heads[HEAD] = Theirs
    /\ pre.worktree # tree[Theirs]
    /\ pre.worktree # TreeOf(Ours)

\* C8: no commit has two parents, and a pull of the embedded backend leaves every local branch where
\* it was or moves the current one to the fetched commit, a descendant of
\* the commit it pointed at, and only when it returns pulled
C8_PullNeverMerges ==
    /\ \A c \in 1..Len(parents) : Cardinality(parents[c]) <= 1
    /\ NativePulled =>
          \/ heads = pre.heads /\ result # Ok("pulled")
          \/ /\ result = Ok("pulled")
             /\ heads = [pre.heads EXCEPT ![pre.HEAD] = tracking[pre.HEAD]]
             /\ Ours # heads[pre.HEAD]
             /\ Ours \in Ancestors(heads[pre.HEAD])

\* a pull of a branch ahead of its upstream found nothing to do
C8_AheadPullUpToDate ==
    /\ NativePulled
    /\ fetch_result = "ok"
    /\ Theirs # 0
    /\ Theirs # Ours
    /\ Theirs \in Ancestors(Ours)
    /\ result = Ok("up_to_date")
    /\ heads = pre.heads

\* the phases the pull state machine allows
PullTraces ==
    {<<"Start", "Fetched", "UpToDate">>,
     <<"Start", "Fetched", "FastForwardable", "Updated">>,
     <<"Start", "Fetched", "Diverged", "Error">>}

\* the phases of a pull that ends before or at its fetch, or finds no
\* remote-tracking branch after it
EarlyPullTraces ==
    {<<"Start", "UpToDate">>, <<"Start", "Error">>, <<"Start", "Fetched", "Error">>}

\* C9 as stated: every pull of the embedded backend goes through Start, Fetched and one of UpToDate,
\* FastForwardable then Updated, Diverged then Error, with exactly one fetch
C9_PullFollowsStateMachine ==
    NativePulled => trace \in PullTraces /\ fetches = 1

\* C9: a pull of the embedded backend issues at most one fetch; it reaches Fetched, and the merge
\* analysis after it, exactly when that fetch succeeded; it ends in one
\* terminal state, through the state machine or through an early end (no
\* HEAD, no repository or origin, a failed fetch, no remote-tracking branch);
\* and it enters no phase twice
C9_PullStateMachineWithEarlyEnds ==
    (cur.op = "pull" /\ backend = "native") =>
        /\ fetches <= 1
        /\ pc = "net" => trace = <<"Start">> /\ fetches = 1
        /\ NativePulled =>
              /\ trace \in PullTraces \cup EarlyPullTraces
              /\ (\E i \in 1..Len(trace) : trace[i] = "Fetched") <=> fetch_result = "ok"
              /\ trace \in PullTraces => fetches = 1
              /\ trace[Len(trace)] \in {"UpToDate", "Updated", "Error"}
        /\ \A i, j \in 1..Len(trace) : trace[i] = trace[j] => i = j

\* a pull whose fetch failed ended in Error without a merge analysis
C9_FetchFailedBeforeAnalysis ==
    /\ NativePulled
    /\ fetches = 1
    /\ fetch_result = "transport error"
    /\ trace = <<"Start", "Error">>
    /\ result = Err("transport error")

\* ------------------------------------------------------- init and clone
\* this step is a whole call of op: it starts idle and ends returned
Whole(op) == pc = "idle" /\ pc' = "done" /\ cur'.op = op

\* C11: in both backends init on a workspace without repository metadata
\* returns initialized and leaves a repository on branch main; init on a
\* repository, whatever operations came before, returns already_initialized
\* and changes nothing in the workspace, its metadata or the remote
C11_InitIdempotent ==
    [][Whole("init") =>
          /\ ws = "plain" =>
                /\ result' = Ok("initialized")
                /\ ws' = "repo"
                /\ HEAD' = "main"
                /\ UNCHANGED <<origin, heads, tracking, worktree, branch_config, storeVars>>
          /\ ws = "repo" =>
                /\ result' = Ok("already_initialized")
                /\ UNCHANGED <<repoVars, storeVars>>]_vars

\* init was called on a repository with commits, a remote and HEAD on dev
C11_InitOnUsedRepository ==
    /\ pc = "done"
    /\ cur.op = "init"
    /\ result = Ok("already_initialized")
    /\ HEAD = "dev"
    /\ heads[HEAD] # 0
    /\ origin # <<>>

\* C12: in both backends a clone into a destination that holds repository
\* metadata, whatever its URL, token and branch, returns already_cloned in
\* one step, issues no network call and changes nothing in the destination
C12_CloneOntoRepositoryIsNoOp ==
    [][(pc = "idle" /\ cur'.op = "clone" /\ ws = "repo") =>
          /\ pc' = "done"
          /\ result' = Ok("already_cloned")
          /\ fetches' = 0
          /\ UNCHANGED <<repoVars, storeVars>>]_vars

\* a clone pinned to a branch and given a token found a repository with
\* commits and local edits, and left it
C12_AlreadyCloned ==
    /\ pc = "done"
    /\ cur.op = "clone"
    /\ cur.token # <<>>
    /\ cur.pinned
    /\ result = Ok("already_cloned")
    /\ heads[HEAD] # 0
    /\ worktree # TreeOf(heads[HEAD])

C14_DiffOfFreshRepositoryIsEmpty ==
    [][(Whole("diff") /\ ws = "repo" /\ heads = NoRefs /\ worktree = EMPTY /\ index = EMPTY) =>
          /\ result' = Changes(<<>>, <<>>)
          /\ UNCHANGED <<repoVars, storeVars>>]_vars
C14_FreshDiffReturned == pc = "done" /\ cur.op = "diff" /\ backend = "native" /\ ws = "repo"
                         /\ heads = NoRefs /\ worktree = EMPTY /\ index = EMPTY
                         /\ result = Changes(<<>>, <<>>)

\* the files value a diff of the current state returns
Files == IF backend = "native" THEN native_files ELSE cli_files

\* path p is a file of HEAD's commit that the working tree holds edited
UncommittedEdits(p) ==
    /\ ws = "repo"
    /\ head_tree # <<>>
    /\ head_tree[1][p] # ABSENT
    /\ worktree[p] \notin {ABSENT, head_tree[1][p]}

\* a diff of the current state reports path p as modified, with diff text
ReportedModified(p) ==
    /\ \E k \in 1..Len(Files) : Files[k][3] = p /\ "M" \in {Files[k][1], Files[k][2]}
    /\ \E k \in 1..Len(diff_text) : diff_text[k][1] = p

\* a diff of the current state reports nothing for path p
NotReported(p) ==
    /\ \A k \in 1..Len(Files) : Files[k][3] # p
    /\ \A k \in 1..Len(diff_text) : diff_text[k][1] # p

\* ---- C15 ----
\* C15: for a tracked file with uncommitted edits, diff returns the change
\* list and diff text that report it modified; checkout_file on that path
\* returns reverted, leaves the file with the content of HEAD's commit and
\* every other path as it was, and a diff of the state it leaves reports
\* nothing for the path
C15_CheckoutFileRestoresCommitted ==
    [][\A p \in Paths : UncommittedEdits(p) =>
          /\ Whole("diff") => /\ ReportedModified(p)
                               /\ result' = Changes(Files, diff_text)
          /\ (Whole("checkout_file") /\ cur'.file = p) =>
                /\ result' = Ok("reverted")
                /\ worktree'[p] = head_tree[1][p]
                /\ \A q \in Paths \ {p} : worktree'[q] = worktree[q]
                /\ NotReported(p)']_vars
\* checkout_file returned reverted and the file is not what HEAD's commit holds
C15_RevertedButStillEdited ==
    /\ pc = "done" /\ cur.op = "checkout_file" /\ result = Ok("reverted")
    /\ UncommittedEdits(cur.file)
    /\ ~NotReported(cur.file)

\* ------------------------------------------------------ swallowed failures
\* the sync that returned staged the working tree and committed it on top of
\* the commit HEAD pointed at when it was called
Committed ==
    LET c == heads[HEAD]
        before == pre.heads[pre.HEAD]
    IN  /\ c \notin {0, before}
        /\ parents[c] = IF before = 0 THEN {} ELSE {before}
        /\ tree[c] = worktree
        /\ index = worktree

\* ---- C16 ----
\* C16: a sync on a repository returns synced exactly when it staged and
\* committed the working tree, whatever became of the push (accepted, failed,
\* or not attempted without an origin): of the steps of sync only the push can
\* fail without the call returning an error
C16_SyncedIffCommitted ==
    (pc = "done" /\ cur.op = "sync" /\ ws = "repo") =>
        /\ Committed => result = Ok("synced")
        /\ result.ok => Committed
\* sync returned synced, nothing was pushed and no commit was made
C16_SyncedWithoutCommit ==
    /\ pc = "done" /\ cur.op = "sync" /\ result = Ok("synced")
    /\ heads = pre.heads /\ heads[HEAD] # 0
    /\ index # TreeOf(heads[HEAD]) /\ fetch_result = "transport error"

\* the change a successful call of a mutating operation stands for
Effected ==
    CASE cur.op = "init" -> ws = "repo"
      [] cur.op = "set_remote" -> origin = <<cur.url>>
      [] cur.op = "sync" -> heads[HEAD] \notin {0, pre.heads[pre.HEAD]}

\* ---- C17 ----
\* C17: no failure of a mutating step is swallowed: an init, set_remote or
\* sync that returns success has made its change; in particular a sync whose
\* commit failed does not return synced, so a synced sync has moved HEAD to a
\* new commit
C17_NoMutatingFailureSwallowed ==
    (pc = "done" /\ cur.op \in {"init", "set_remote", "sync"} /\ result.ok) => Effected
\* sync returned synced on a repository that still has no commit at all
C17_SyncedOnUnbornHead ==
    /\ pc = "done" /\ cur.op = "sync" /\ result = Ok("synced")
    /\ heads = NoRefs /\ worktree # EMPTY /\ index = worktree

\* ------------------------------------------------------- checkout_branch
\* a checkout_branch returned whose fetch was attempted and failed
FetchFailed ==
    /\ pc = "done" /\ cur.op = "checkout_branch" /\ ws = "repo"
    /\ fetch_result # "ok"
    /\ backend = "native" => fetches = 1

\* the repository holds a remote-tracking ref for the branch asked for
Known == tracking[cur.branch] # 0

\* the switch itself is refused: the embedded backend cannot force-update the
\* branch HEAD is on, the system backend does not overwrite local changes
Refused ==
    LET from == pre.heads[pre.HEAD]
        to == tracking[cur.branch]
    IN  IF backend = "native"
        THEN pre.HEAD = cur.branch /\ from # 0
        ELSE TreeOf(from) # TreeOf(to) /\ pre.worktree # TreeOf(from)

\* the repository is as the call found it
Untouched == heads = pre.heads /\ HEAD = pre.HEAD /\ worktree = pre.worktree

C19_BlockingWorkerAwaited ==
    /\ [][/\ (pc' # "idle" /\ cur'.op \in NetOps) => cur'.thread = "blocking worker"
          /\ (pc' = "returned" /\ pc # "returned") =>
                /\ pc \in {"done", "panicked"}
                /\ pc = "done" => result' = result
                /\ pc = "panicked" => ~result'.ok
                /\ UNCHANGED <<repoVars, storeVars, cur>>]_vars
    /\ (pc \in {"done", "panicked"}) ~> (pc = "returned")
C19_WorkerFailureReturned ==
    /\ pc = "returned" /\ cur.op = "pull" /\ cur.thread = "blocking worker"
    /\ result = Err("task panicked")

\* ------------------------------------------------------- the status of pull
\* the pull moved the local branch
Moved == heads[pre.HEAD] # Ours

\* the local branch held the upstream commit when the pull was called
ContainsUpstream == Theirs = 0 \/ Theirs \in Ancestors(Ours)

\* ---- C20 ----
\* C20: in both backends a pull that succeeds returns up_to_date or pulled:
\* pulled exactly when it fast-forwarded the local branch to the upstream
\* commit, up_to_date exactly when it moved nothing because the local branch
\* already held the upstream commit
C20_PullStatusTellsWhatHappened ==
    (Pulled /\ result.ok) =>
        /\ result.val \in {"up_to_date", "pulled"}
        /\ result.val = "pulled" <=> (Moved /\ Behind /\ heads[pre.HEAD] = Theirs)
        /\ result.val = "up_to_date" <=> (~Moved /\ ContainsUpstream)
\* the system backend reports pulled for a pull that found nothing new
C20_PulledWithoutMoving ==
    /\ Pulled /\ backend = "cli" /\ result = Ok("pulled") /\ fetch_result = "ok"
    /\ heads = pre.heads /\ worktree = pre.worktree /\ Ours # 0 /\ Theirs = Ours

\* ------------------------------------------------- URL function claims
\* the position of the last occurrence of c in s, 0 when there is none
FindLast(s, c) ==
    IF \E i \in 1..Len(s) : s[i] = c
    THEN CHOOSE i \in 1..Len(s) : s[i] = c /\ \A j \in (i + 1)..Len(s) : s[j] # c
    ELSE 0

\* user@host:path with a user and a host that are plain names, and a path
IsSshShorthand(url) ==
    LET at == Find(url, "@")
        rest == SubSeq(url, at + 1, Len(url))
        colon == Find(rest, ":")
        name(w) == w # <<>> /\ \A i \in 1..Len(w) : w[i] \notin {"@", ":", "/"}
    IN  /\ at > 1
        /\ colon > 1
        /\ name(SubSeq(url, 1, at - 1))
        /\ name(SubSeq(rest, 1, colon - 1))
        /\ colon < Len(rest)

\* the HTTPS form of the SSH shorthand user@host:path: https://host/path
SshToHttps(url) ==
    LET rest == SubSeq(url, Find(url, "@") + 1, Len(url))
        colon == Find(rest, ":")
    IN  HTTPS \o SubSeq(rest, 1, colon - 1) \o <<"/">> \o SubSeq(rest, colon + 1, Len(rest))

\* an HTTPS URL without the user@ or user:pass@ segment that precedes its
\* host: the authority ends at the first '/', the segment at its last '@'
StripCredentialSegment(url) ==
    LET rest == StripPrefix(url, HTTPS)
        at == FindLast(Authority(url), "@")
    IN  IF StartsWith(url, HTTPS) /\ at # 0
        THEN HTTPS \o SubSeq(rest, at + 1, Len(rest))
        ELSE url

\* exactly these functions were applied, in this order, to the URL of origin
Applied(fs) == pc = "fn" /\ trace = fs

\* ---- C21 ----
\* C21: normalize_url maps an SSH shorthand user@host:path, whatever the user,
\* to https://host/path, and returns an HTTPS URL unchanged up to its
\* credential segment
C21_NormalizeEverySshUser ==
    Applied(<<"normalize_url">>) =>
        /\ IsSshShorthand(cur.origin_url) => cur.url = SshToHttps(cur.origin_url)
        /\ StartsWith(cur.origin_url, HTTPS) =>
              StripCredentialSegment(cur.url) = StripCredentialSegment(cur.origin_url)
\* an SSH shorthand of a user other than git came back as it went in
C21_SshShorthandKept ==
    /\ Applied(<<"normalize_url">>)
    /\ IsSshShorthand(cur.origin_url)
    /\ ~StartsWith(cur.origin_url, GIT_AT)
    /\ cur.url = cur.origin_url

\* ---- C22 ----
\* C22: clean_url removes exactly the user@ or user:pass@ segment that
\* precedes the host of an HTTPS URL and leaves host and path as they are; a
\* URL without such a segment, an '@' in its path or not, is returned unchanged
C22_StripsOnlyCredentialSegment ==
    Applied(<<"clean_url">>) =>
        /\ cur.url = StripCredentialSegment(cur.origin_url)
        /\ ~HasCredentialSegment(cur.origin_url) => cur.url = cur.origin_url
\* an HTTPS URL without credentials lost its host: its path holds an '@'
C22_HostCutAway ==
    /\ Applied(<<"clean_url">>)
    /\ StartsWith(cur.origin_url, HTTPS)
    /\ ~HasCredentialSegment(cur.origin_url)
    /\ Authority(cur.origin_url) # <<>>
    /\ Authority(cur.url) # Authority(cur.origin_url)

\* ---- C23 ----
\* C23: normalize_url and clean_url are idempotent: applied twice to any URL,
\* a URL with several '@' included, each yields what it yields applied once
C23_UrlFunctionsIdempotent ==
    /\ Applied(<<"normalize_url", "normalize_url">>) => cur.url = normalize_url(cur.origin_url)
    /\ Applied(<<"clean_url", "clean_url">>) => cur.url = clean_url(cur.origin_url)
\* the second clean_url cut an HTTPS URL again, at its second '@'
C23_SecondCleanCutsAgain ==
    /\ Applied(<<"clean_url", "clean_url">>)
    /\ Cardinality({i \in 1..Len(cur.origin_url) : cur.origin_url[i] = "@"}) > 1
    /\ cur.url # clean_url(cur.origin_url)

\* ---- C24 ----
\* C24: whatever the length of the token given to clone, pull, sync or
\* checkout_branch, no text the call writes to its diagnostics contains the
\* whole token
C24_TokenNeverLoggedWhole ==
    (cur.op \in NetOps /\ cur.token # <<>>) =>
        \A text \in stderr : ~Contains(text, cur.token[1])
\* a pull or a clone printed, as the prefix of its token, the whole token
C24_ShortTokenLogged ==
    /\ cur.op \in {"clone", "pull"}
    /\ cur.token # <<>>
    /\ Len(cur.token[1]) <= PreviewLen
    /\ cur.token[1] \in stderr

\* ---- C25 ----
\* C25: whatever its input, no operation ends by panicking: its body returns
\* a status or an error
C25_NoOperationPanics == pc # "panicked"
\* the body of a pull panicked on its token, 9 bytes with a character across
\* byte 8, before it touched the repository
C25_PullPanickedOnToken ==
    /\ pc = "panicked"
    /\ cur.op = "pull"
    /\ cur.token = <<WideToken(PreviewLen)>>

\* ---- C26 ----
\* C26: with calls running against two workspaces under every interleaving,
\* the state of a workspace, of its remote and of the call against it changes
\* only while its own worker runs, and a worker that is scheduled finds all of
\* it as it left it; so a call is refused for a repeated credential only when
\* it handed its own token before, as when it runs alone
C26_WorkspacesIndependent ==
    [][/\ other' # other => (Focused' = other /\ other' = Focused)
       /\ fetch_result' = "auth failed after retry" => handed' >= 1]_vars
\* a clone handed its token once and succeeded while the call against the
\* other workspace was on the wire with its own credential already tried
C26_ClonedBesideTriedCall ==
    /\ other # <<>>
    /\ other.pc = "net" /\ other.tried_userpass /\ other.handed = 1
    /\ pc = "done" /\ cur.op = "clone" /\ result = Ok("cloned") /\ handed = 1

\* ---- C27 ----
\* C27: in both backends a step removes the workspace directory only within a
\* clone, and only a directory without repository metadata; and when a clone
\* called on such a directory returns, the directory is there, as a repository
\* or untouched
C27_RemovedOnlyToBeRecreated ==
    [][/\ (ws # "nodir" /\ ws' = "nodir") => (cur'.op = "clone" /\ ws = "plain")
       /\ (pc' = "done" /\ cur'.op = "clone" /\ pre'.ws = "plain") =>
             \/ ws' = "repo"
             \/ ws' = "plain" /\ worktree' = pre'.worktree]_vars
\* a clone failed and returned its error: the directory it was called on,
\* and the files in it, are gone
C27_DirectoryLostByFailedClone ==
    /\ pc = "done" /\ cur.op = "clone" /\ ~result.ok
    /\ pre.ws = "plain" /\ pre.worktree # EMPTY
    /\ ws = "nodir"

\* ---- C28 ----
\* the commit HEAD was at when the operation was called
Before == pre.heads[pre.HEAD]

\* the working tree holds the files of commit c, and besides them only
\* untracked files that were there when the operation was called
MatchesCommit(c) ==
    \A p \in Paths :
        \/ worktree[p] = TreeOf(c)[p]
        \/ /\ TreeOf(c)[p] = ABSENT
           /\ TreeOf(Before)[p] = ABSENT
           /\ worktree[p] = pre.worktree[p]

\* C28: in both backends, when checkout_branch(b) has returned switched, the
\* local branch b is at the commit of origin/b, HEAD is attached to b and the
\* working tree holds the files of that commit (uncommitted edits of tracked
\* files are overwritten), whether or not b existed and whichever branch was
\* checked out before
C28_SwitchedToTrackedCommit ==
    (pc = "done" /\ cur.op = "checkout_branch" /\ result = Ok("switched")) =>
        /\ tracking[cur.branch] # 0
        /\ heads[cur.branch] = tracking[cur.branch]
        /\ HEAD = cur.branch
        /\ MatchesCommit(tracking[cur.branch])
\* the system git switched and kept the uncommitted edit of a tracked file
C28_SwitchedKeepingEdits ==
    /\ pc = "done" /\ cur.op = "checkout_branch" /\ result = Ok("switched")
    /\ backend = "cli"
    /\ heads[cur.branch] = tracking[cur.branch] /\ HEAD = cur.branch
    /\ worktree = pre.worktree
    /\ \E p \in Paths : TreeOf(Before)[p] # ABSENT /\ worktree[p] # TreeOf(tracking[cur.branch])[p]

\* ---- C29 ----
\* C29: in both backends a get_remote on a repository returns the URL that
\* the last set_remote gave origin, and the error "no remote" when there is
\* no origin; a set_remote on a repository makes its URL the URL of origin and
\* returns set in the embedded backend, added in the process backend when
\* there was no origin and updated when there was one
C29_GetRemoteReturnsWhatWasSet ==
    /\ (pc = "done" /\ cur.op = "get_remote" /\ ws = "repo") =>
          IF origin = <<>>
          THEN result = Err("no remote")
          ELSE result.ok /\ result.val = origin[1]
    /\ (pc = "done" /\ cur.op = "set_remote" /\ ws = "repo") =>
          /\ origin = <<cur.url>>
          /\ result = Ok(IF backend = "native" THEN "set"
                         ELSE IF pre.origin = <<>> THEN "added" ELSE "updated")
\* the process backend returned the URL of origin without its last character
C29_UrlReturnedTrimmed ==
    /\ pc = "done" /\ cur.op = "get_remote" /\ backend = "cli"
    /\ origin = <<GraphCloneUrl \o <<SP>>>>
    /\ result = Ok(GraphCloneUrl)

\* ---- C30 ----
\* C30: in both backends a sync that returns synced has created exactly one
\* commit, the newest of the repository, with the commit HEAD was at as its
\* only parent (none when HEAD had no commit) and the branch at it; and a sync
\* of a working tree without changes fails only when staging or committing
\* itself fails, never because there is nothing to commit
C30_SyncedAddsOneCommit ==
    (pc = "done" /\ cur.op = "sync" /\ ws = "repo") =>
        /\ result.ok =>
              /\ result = Ok("synced")
              /\ Committed
              /\ heads[HEAD] = Len(parents)
              /\ Ancestors(heads[HEAD]) = {heads[HEAD]} \cup Ancestors(Before)
        /\ (~result.ok /\ pre.worktree = TreeOf(Before)) => result.val \in LocalOutcomes
\* the system git returned synced for a working tree without changes and the
\* branch is where it was: the commit failed
C30_SyncedBranchNotAdvanced ==
    /\ pc = "done" /\ cur.op = "sync" /\ result = Ok("synced")
    /\ backend = "cli"
    /\ Before # 0 /\ heads[HEAD] = Before
    /\ worktree = TreeOf(Before)
\* ---- C31 ----
\* the change kinds of the change list, by their flags
ChangeKinds == {<<"?", "?">>, <<" ", "M">>, <<" ", "D">>}

\* the flag of an entry of the change list
FlagOf(e) == SubSeq(e, 1, 2)

\* the kind the precedence added, modified, deleted gives a status
KindByPrecedence(s) ==
    IF \E f \in s : FlagChange(f) = "NEW" THEN <<"?", "?">>
    ELSE IF \E f \in s : FlagChange(f) = "MODIFIED" THEN <<" ", "M">>
    ELSE <<" ", "D">>

\* C31: whatever statuses the embedded backend observes, every entry of the
\* change list diff returns carries exactly one of the kinds added, modified
\* and deleted: added before modified before deleted
C31_EveryEntryHasOneKind ==
    (pc = "done" /\ cur.op = "diff" /\ result.ok) =>
        \A k \in 1..Len(result.val.files) :
            LET e == result.val.files[k]
            IN  /\ FlagOf(e) \in ChangeKinds
                /\ FlagOf(e) = KindByPrecedence(cur.statuses[e[3]])
\* diff returned an entry for an ignored file: its flag is blank, none of the
\* three kinds
C31_IgnoredFileListedWithoutKind ==
    /\ pc = "done" /\ cur.op = "diff" /\ result.ok
    /\ cur.statuses["a.txt"] = {"IGNORED"}
    /\ result.val.files[1] = <<" ", " ", "a.txt">>
\* ---- C32 ----
\* C32: the guard of the credential closure belongs to one network call: a
\* call reaches the network with the guard untried, whatever the call before
\* left; the token is handed only while the guard is untried and that sets
\* it; a call is refused for a repeated credential only after it handed its
\* own token; and answering a request that does not allow user/password
\* leaves the guard as it was
C32_GuardFreshPerCall ==
    [][/\ (pc = "idle" /\ pc' = "net") => ~tried_userpass'
       /\ (pc = "net" /\ handed' = handed + 1) => (~tried_userpass /\ tried_userpass')
       /\ (pc = "net" /\ fetch_result' = "auth failed after retry") =>
             (tried_userpass /\ handed = 1)
       /\ (pc = "net" /\ answered' = answered + 1 /\ handed' = handed) =>
             tried_userpass' = tried_userpass]_vars
\* the call before handed its token; this pull answered a request that does
\* not allow user/password and then handed its own token, once
C32_NextCallHandedItsToken ==
    /\ pc = "net" /\ cur.op = "pull"
    /\ pre.tried_userpass
    /\ answered = 2 /\ handed = 1
\* ---- C33 ----
\* path p was tracked when the pull was called or is tracked after it
TrackedAround(p) == TreeOf(Ours)[p] # ABSENT \/ TreeOf(heads[HEAD])[p] # ABSENT

\* path p held an uncommitted modification when the pull was called
LocallyModified(p) == TreeOf(Ours)[p] # ABSENT /\ pre.worktree[p] # TreeOf(Ours)[p]

\* C33: when a pull of the embedded backend has returned pulled, HEAD's
\* branch is at the fetched upstream commit and every tracked path of the
\* working tree and of the index holds what that commit holds: uncommitted
\* modifications of tracked files are overwritten, and the pull returns plain
\* pulled without reporting them
C33_PulledOverwritesLocalEdits ==
    (NativePulled /\ result.ok /\ result.val = "pulled") =>
        /\ heads[HEAD] = tracking[HEAD]
        /\ heads[HEAD] # 0
        /\ \A p \in Paths :
              TrackedAround(p) =>
                  /\ worktree[p] = tree[heads[HEAD]][p]
                  /\ index[p] = tree[heads[HEAD]][p]
\* a pull returned pulled over a tracked file with an uncommitted modification
\* that differs from the upstream commit: the modification is gone
C33_LocalEditDiscarded ==
    /\ NativePulled
    /\ result = Ok("pulled")
    /\ \E p \in Paths :
          /\ LocallyModified(p)
          /\ pre.worktree[p] # tree[heads[HEAD]][p]
          /\ worktree[p] = tree[heads[HEAD]][p]
\* ---- C34 ----
\* the step is the part of a pull, sync or checkout_branch of the embedded
\* backend that opens the repository and runs ensure_https_remote
EnsureRuns ==
    /\ backend = "native"
    /\ pc = "idle" /\ ws = "repo" /\ pc' # "idle" /\ cur'.op \in RewritingOps

\* origin is absent, or its URL is empty or already in normalized form
NothingToUpgrade == normalize_url(OriginUrl(origin)) = OriginUrl(origin)

WithoutBranch == pre.ws = "repo" /\ (pre.HEAD = DETACHED \/ pre.heads[pre.HEAD] = 0)

\* C35: a pull of the embedded backend on an unborn HEAD returns up_to_date
\* and on a detached HEAD an error; either way it issues no fetch, leaves in
\* origin the URL it held (in its normalized form, never the URL written for
\* the time of a fetch), and changes no branch, not HEAD and no file of the
\* working tree
C35_PullWithoutBranchChangesNothing ==
    (NativePulled /\ WithoutBranch) =>
        /\ result = IF pre.HEAD = DETACHED THEN Err("HEAD is detached") ELSE Ok("up_to_date")
        /\ fetches = 0
        /\ fetch_result = "none"
        /\ origin = IF pre.origin = <<>> THEN <<>> ELSE <<normalize_url(pre.origin[1])>>
        /\ heads = pre.heads
        /\ HEAD = pre.HEAD
        /\ worktree = pre.worktree
\* a pull with a token was refused on a detached HEAD while the remote held a
\* commit the repository had not fetched, and origin kept its credentials
C35_DetachedPullRefused ==
    /\ NativePulled
    /\ pre.HEAD = DETACHED
    /\ result = Err("HEAD is detached")
    /\ cur.token # <<>>
    /\ upstream["main"] # tracking["main"]
    /\ origin # <<>> /\ HasCredentialSegment(origin[1])
====
